---- MODULE Spec2Model ----
(***************************************************************************)
(* Verification model of the time_reclamation YouTube summarizer:          *)
(*   - the youtube_videos table and its operations (core/youtube/          *)
(*     database.py),                                                       *)
(*   - the transcript cache files read by the pipeline (cache_manager.py), *)
(*   - the summary pipeline and its two batch drivers (summary_service.py),*)
(*   - the dispatch of the capability managers (infrastructure/*/manager), *)
(*   - the lazily loaded provider instances (infrastructure/*/providers),  *)
(*   - the channel scrape (core/youtube/channel_manager.py),               *)
(*   - the Telegram request loops (notifications/providers/telegram.py).   *)
(* The specifications share the variables: Spec (store, cache, pipeline),  *)
(* MgrSpec (one capability manager and its registry), CtorSpec (the        *)
(* construction of a manager's registry from a configured list), ProvSpec  *)
(* (one provider instance and its backend), CacheSpec (one save into the   *)
(* transcript cache), ScrapeSpec (runs of process_channel), BatchSpec (one *)
(* run of process_all_channels), TgSpec (one Telegram request), RunSpec     *)
(* (process_channel_summaries called again and again with one limit),      *)
(* FaultSpec (the batch drivers over a store and a cache that can fail)    *)
(* and ConcSpec (two processes in save_video for one url).                 *)
(***************************************************************************)
EXTENDS Integers, Sequences, FiniteSets, TLC

VARIABLES
    rows,       \* the youtube_videos table: a sequence of rows in rowid order
    cache,      \* the transcript cache directory: path -> text of the file
    clock,      \* the wall clock read by datetime.now() at each write
    res,        \* what the last operation did and returned
    batch,      \* position of a running batch driver (or idle)
    mgr,        \* which capability manager MgrSpec is about
    providers,  \* the manager's _providers: instance names in registration order
    meta,       \* the manager's _provider_instances[..]['configured'] snapshot
    live,       \* what each registered provider's is_configured() returns now
    mres,       \* what the last manager dispatch did and returned
    configs,    \* the instance list a manager is being constructed from
    built,      \* per registered name, the list position of the entry that built it
    prov,       \* one provider instance: its type and lazy-load fields
    pres,       \* what the last call on that provider did and returned
    textdir,    \* the summary text files on disk (SummaryService.text_dir)
    procs,      \* two processes inside save_video: position, what it read, return
    scrape,     \* position and results of a running channel scrape
    tg          \* position of a Telegram request loop and its result

vars == <<rows, cache, clock, res, batch, mgr, providers, meta, live, mres,
          configs, built, prov, pres, textdir, scrape, tg, procs>>
storeVars == <<rows, cache, clock, res, batch, textdir>>
mgrVars == <<mgr, providers, meta, live, mres>>
provVars == <<configs, built, prov, pres>>

----------------------------------------------------------------------------
(* Bounds of the model *)

\* Writes to the store in one behaviour (each write reads a later clock value).
MaxClock == 3

----------------------------------------------------------------------------
(* Value domains *)

NULL == "NULL"                       \* SQL NULL / Python None
URLS == {"u1", "u2"}
TITLES == {"T"}
CHANNELS == {"c1", "c2"}
PATHS == {"p1"}
MISSING == "MISSING"                 \* no file at that path
TEXTS == {"hello world"}             \* transcript['text'] of a cache file
RESPONSES == {"Summary of T", "Other"}
AUDIO == {"out.wav"}

\* Columns of youtube_videos kept by the model.  video_id, channel_name,
\* language, source_type, total_entries and fetched_at are written exactly
\* where title is written and are represented by it.
NoRow ==
    [url |-> NULL, title |-> NULL, channel_url |-> NULL,
     transcript_path |-> NULL, summary_processed |-> FALSE,
     summary_text |-> NULL, summary_audio_path |-> NULL,
     summary_processed_at |-> 0, summary_error |-> NULL,
     created_at |-> 0, updated_at |-> 0]

----------------------------------------------------------------------------
(* The table: core/youtube/database.py *)

RowIdx(t, url) == {i \in 1..Len(t) : t[i].url = url}

\* SELECT * FROM youtube_videos WHERE url = ?; fetchone()
GetVideoByUrl(t, url) ==
    IF RowIdx(t, url) = {} THEN NoRow
    ELSE t[CHOOSE i \in RowIdx(t, url) : \A j \in RowIdx(t, url) : i <= j]

\* Faulty variant: url has no UNIQUE constraint.
InsertAlwaysAccepted(t, url) == FALSE

\* INSERT INTO youtube_videos (...): url is UNIQUE NOT NULL, the summary
\* columns take their defaults.  An insert that breaks UNIQUE raises.
InsertBreaksUnique(t, url) == RowIdx(t, url) # {}

InsertRow(t, data, path, now) ==
    Append(t, [url |-> data.url, title |-> data.title,
               channel_url |-> data.channel_url,
               transcript_path |-> path, summary_processed |-> FALSE,
               summary_text |-> NULL, summary_audio_path |-> NULL,
               summary_processed_at |-> 0, summary_error |-> NULL,
               created_at |-> now, updated_at |-> now])

\* Faulty variant: the update also rewrites created_at.
UpdateVideoStampsCreated(t, data, path, now) ==
    [i \in 1..Len(t) |->
        IF t[i].url = data.url
        THEN [t[i] EXCEPT !.title = data.title,
                          !.channel_url = data.channel_url,
                          !.transcript_path = path,
                          !.created_at = now,
                          !.updated_at = now]
        ELSE t[i]]

UpdateVideoClearsError(t, data, path, now) ==
    [i \in 1..Len(t) |->
        IF t[i].url = data.url
        THEN [t[i] EXCEPT !.title = data.title,
                          !.channel_url = data.channel_url,
                          !.transcript_path = path,
                          !.summary_error = NULL,
                          !.updated_at = now]
        ELSE t[i]]

\* Faulty variant: the update also puts the summary columns back to their
\* defaults.
UpdateVideoResetsSummary(t, data, path, now) ==
    [i \in 1..Len(t) |->
        IF t[i].url = data.url
        THEN [t[i] EXCEPT !.title = data.title,
                          !.channel_url = data.channel_url,
                          !.transcript_path = path,
                          !.summary_processed = FALSE,
                          !.summary_text = NULL,
                          !.summary_audio_path = NULL,
                          !.updated_at = now]
        ELSE t[i]]

\* UPDATE youtube_videos SET title, channel_name, channel_url,
\* transcript_path, language, source_type, total_entries, updated_at,
\* fetched_at WHERE url = ?
UpdateVideo(t, data, path, now) ==
    [i \in 1..Len(t) |->
        IF t[i].url = data.url
        THEN [t[i] EXCEPT !.title = data.title,
                          !.channel_url = data.channel_url,
                          !.transcript_path = path,
                          !.updated_at = now]
        ELSE t[i]]

\* save_video: the table after the call (an exception leaves it as it was).
SaveVideoRows(t, data, path, now) ==
    IF GetVideoByUrl(t, data.url) # NoRow
    THEN UpdateVideo(t, data, path, now)
    ELSE IF InsertBreaksUnique(t, data.url) THEN t
         ELSE InsertRow(t, data, path, now)

\* save_video: its return value.
SaveVideoOk(t, data) ==
    GetVideoByUrl(t, data.url) # NoRow \/ ~InsertBreaksUnique(t, data.url)

\* Faulty variant: the update leaves summary_error as it was.
MarkProcessedKeepsError(t, url, text, audio, now) ==
    [i \in 1..Len(t) |->
        IF t[i].url = url
        THEN [t[i] EXCEPT !.summary_processed = TRUE,
                          !.summary_text = text,
                          !.summary_audio_path = audio,
                          !.summary_processed_at = now,
                          !.updated_at = now]
        ELSE t[i]]

\* mark_summary_processed: UPDATE ... SET summary_processed = TRUE,
\* summary_text, summary_audio_path, summary_processed_at,
\* summary_error = NULL, updated_at WHERE url = ?
MarkSummaryProcessed(t, url, text, audio, now) ==
    [i \in 1..Len(t) |->
        IF t[i].url = url
        THEN [t[i] EXCEPT !.summary_processed = TRUE,
                          !.summary_text = text,
                          !.summary_audio_path = audio,
                          !.summary_processed_at = now,
                          !.summary_error = NULL,
                          !.updated_at = now]
        ELSE t[i]]

\* mark_summary_error: UPDATE ... SET summary_error = ?, updated_at = ?
\* WHERE url = ?
MarkSummaryError(t, url, msg, now) ==
    [i \in 1..Len(t) |->
        IF t[i].url = url
        THEN [t[i] EXCEPT !.summary_error = msg, !.updated_at = now]
        ELSE t[i]]

\* Python truthiness of an optional string.
Falsy(x) == x = NULL \/ x = ""

\* The elements of a sequence.
Range(s) == {s[i] : i \in DOMAIN s}

\* The rows at the indices ix, ordered by key then rowid (ORDER BY key;
\* SQLite breaks ties by the scan order, the rowid).
RECURSIVE OrderBy(_, _, _, _)
OrderBy(t, ix, key, desc) ==
    IF ix = {} THEN <<>>
    ELSE LET first == CHOOSE i \in ix : \A j \in ix :
                 \/ i = j
                 \/ (IF desc THEN t[i][key] > t[j][key]
                             ELSE t[i][key] < t[j][key])
                 \/ (t[i][key] = t[j][key] /\ i < j)
         IN <<t[first]>> \o OrderBy(t, ix \ {first}, key, desc)

\* "if limit: query += ' LIMIT ?'": None and 0 both mean no limit.
NoLimit == 0
Limited(s, limit) ==
    IF limit = NoLimit \/ Len(s) <= limit THEN s ELSE SubSeq(s, 1, limit)

GetUnsummarizedVideosAnyTranscript(t, channel_url, limit) ==
    Limited(OrderBy(t, {i \in 1..Len(t) :
                            /\ t[i].summary_processed = FALSE
                            /\ (Falsy(channel_url) \/ t[i].channel_url = channel_url)},
                    "created_at", FALSE), limit)

\* get_unsummarized_videos(channel_url, limit): WHERE summary_processed =
\* FALSE AND transcript_path IS NOT NULL [AND channel_url = ?]
\* ORDER BY created_at ASC [LIMIT ?]
GetUnsummarizedVideos(t, channel_url, limit) ==
    Limited(OrderBy(t, {i \in 1..Len(t) :
                            /\ t[i].summary_processed = FALSE
                            /\ t[i].transcript_path # NULL
                            /\ (Falsy(channel_url) \/ t[i].channel_url = channel_url)},
                    "created_at", FALSE), limit)

GetFailedSummariesUnprocessedOnly(t, limit) ==
    Limited(OrderBy(t, {i \in 1..Len(t) :
                            /\ t[i].summary_error # NULL
                            /\ t[i].summary_processed = FALSE
                            /\ t[i].transcript_path # NULL},
                    "updated_at", TRUE), limit)

\* get_failed_summaries(limit): WHERE summary_error IS NOT NULL AND
\* transcript_path IS NOT NULL ORDER BY updated_at DESC [LIMIT ?]
GetFailedSummaries(t, limit) ==
    Limited(OrderBy(t, {i \in 1..Len(t) :
                            /\ t[i].summary_error # NULL
                            /\ t[i].transcript_path # NULL},
                    "updated_at", TRUE), limit)

\* get_videos_by_channel(channel_url, limit): WHERE channel_url = ?
\* ORDER BY created_at DESC [LIMIT ?]
GetVideosByChannel(t, channel_url, limit) ==
    Limited(OrderBy(t, {i \in 1..Len(t) : t[i].channel_url = channel_url},
                    "created_at", TRUE), limit)

\* The columns of youtube_videos as _initialize_tables creates the table.
Columns ==
    {"id", "url", "video_id", "title", "channel_name", "channel_url",
     "transcript_path", "language", "source_type", "total_entries",
     "summary_processed", "summary_text", "summary_audio_path",
     "summary_processed_at", "summary_error", "created_at", "updated_at",
     "fetched_at"}

\* get_unprocessed_videos(limit): WHERE llm_processed = FALSE AND
\* transcript_path IS NOT NULL ORDER BY created_at ASC [LIMIT ?].  A
\* statement naming a column the table does not have raises, and the
\* method's "except Exception" returns [].
GetUnprocessedVideos(t, limit) ==
    IF "llm_processed" \notin Columns THEN <<>>
    ELSE Limited(OrderBy(t, {i \in 1..Len(t) :
                                 /\ t[i].llm_processed = FALSE
                                 /\ t[i].transcript_path # NULL},
                         "created_at", FALSE), limit)

----------------------------------------------------------------------------
(* The cache: core/youtube/cache_manager.py *)

\* load_transcript_by_path: None when the file is missing, else the
\* 'transcript' object of the file, of which the pipeline reads 'text'.
LoadTranscriptByPath(c, path) ==
    IF path \in DOMAIN c /\ c[path] # MISSING THEN c[path] ELSE NULL

\* A title or a video id is a sequence of characters; Join is the string.
RECURSIVE Join(_)
Join(s) ==
    IF s = <<>> THEN ""
    ELSE IF Len(s) = 1 THEN s[1]
    ELSE LET h == Len(s) \div 2
         IN Join(SubSeq(s, 1, h)) \o Join(SubSeq(s, h + 1, Len(s)))

\* _sanitize_filename: each of '<>:"/\|?*' is replaced by '_', then
\* strip(), then [:200].
INVALID_CHARS == {"<", ">", ":", "\"", "/", "\\", "|", "?", "*"}
WHITESPACE == {" "}                    \* the whitespace that titles here contain
FilenameLimit == 200

ReplaceInvalid(s) ==
    [i \in 1..Len(s) |-> IF s[i] \in INVALID_CHARS THEN "_" ELSE s[i]]

RECURSIVE LStrip(_)
LStrip(s) ==
    IF s # <<>> /\ Head(s) \in WHITESPACE THEN LStrip(Tail(s)) ELSE s

RECURSIVE RStrip(_)
RStrip(s) ==
    IF s # <<>> /\ s[Len(s)] \in WHITESPACE
    THEN RStrip(SubSeq(s, 1, Len(s) - 1)) ELSE s

SanitizeFilename(filename) ==
    LET stripped == RStrip(LStrip(ReplaceInvalid(filename))) IN
    IF Len(stripped) <= FilenameLimit THEN stripped
    ELSE SubSeq(stripped, 1, FilenameLimit)

\* "untitled", the name used for a title that is None or empty; both are
\* the empty sequence here.
Untitled == <<"u", "n", "t", "i", "t", "l", "e", "d">>

\* Faulty variant: the video id and the separator are sanitized with the
\* title.
GetCachePathSanitizingAll(channel_cache_folder, video_id, title) ==
    channel_cache_folder \o "/"
    \o Join(SanitizeFilename(video_id \o <<"_">> \o title)) \o ".json"

\* _get_cache_path: channel_dir / f"{video_id}_{sanitized_title}.json" with
\* sanitized_title = _sanitize_filename(title or "untitled").
GetCachePath(channel_cache_folder, video_id, title) ==
    channel_cache_folder \o "/" \o Join(video_id) \o "_"
    \o Join(SanitizeFilename(IF title = <<>> THEN Untitled ELSE title))
    \o ".json"

\* transcript_exists: cache_path.exists() and cache_path.is_file().
TranscriptExists(c, channel_cache_folder, video_id, title) ==
    LET cache_path == GetCachePath(channel_cache_folder, video_id, title)
    IN cache_path \in DOMAIN c /\ c[cache_path] # MISSING

\* save_transcript: the cache after the call and the returned path.  The
\* file holds the transcript under the key 'transcript' (json.dump); a
\* failure of open() or of the write returns None.  json.dump and json.load
\* are inverse on the objects the fetcher builds (string keys; strings,
\* numbers, lists, None), so a file is represented by the transcript in it.
SaveTranscript(c, transcript_data, channel_cache_folder, video_id, title, writeOk) ==
    LET cache_path == GetCachePath(channel_cache_folder, video_id, title) IN
    IF writeOk
    THEN [cache |-> [c EXCEPT ![cache_path] = transcript_data],
          path |-> cache_path]
    ELSE [cache |-> c, path |-> NULL]

\* load_transcript: None when the file is missing, else its 'transcript'.
LoadTranscript(c, channel_cache_folder, video_id, title) ==
    LoadTranscriptByPath(c, GetCachePath(channel_cache_folder, video_id, title))

----------------------------------------------------------------------------
(* The summary pipeline: core/youtube/summary_service.py *)

\* What a manager call of the pipeline can do: return a result with a
\* status (and, on success, its payload), or raise.
SUCCESS == "success"
FAILED == "failed"
NotCalled == [raised |-> FALSE, status |-> NULL, payload |-> NULL]
Outcomes(payloads) ==
    {[raised |-> FALSE, status |-> SUCCESS, payload |-> x] : x \in payloads}
    \cup {[raised |-> FALSE, status |-> FAILED, payload |-> NULL],
          [raised |-> TRUE, status |-> NULL, payload |-> NULL]}
LlmOutcomes == Outcomes(RESPONSES)      \* LLMResult.response
TtsOutcomes == Outcomes(AUDIO)          \* TTSResult.output_file
NotifOutcomes == Outcomes({"sent"})     \* NotificationResult.message

\* What the three managers do in one run: a stage is called only when the
\* stage before it returned SUCCESS.
StageOutcomes ==
    LET ok(S) == {o \in S : ~o.raised /\ o.status = SUCCESS} IN
    {<<l, NotCalled, NotCalled>> : l \in LlmOutcomes \ ok(LlmOutcomes)}
    \cup {<<l, t, NotCalled>> :
              l \in ok(LlmOutcomes), t \in TtsOutcomes \ ok(TtsOutcomes)}
    \cup (ok(LlmOutcomes) \X ok(TtsOutcomes) \X NotifOutcomes)

ErrNotFound == "Video not found in database"
ErrNoTranscript == "No transcript available"
ErrLoad == "Failed to load transcript"
ErrLlm == "LLM generation failed"
ErrTts == "TTS conversion failed"
ErrException == "Error processing video summary"

\* The result dictionary of process_video_summary with the trace of the run:
\* the row read at its start, the stages it invoked and what each returned.
NoCounts == [processed |-> 0, failed |-> 0, skipped |-> 0]
NoArgs == [title |-> NULL, channel_url |-> NULL, transcript_path |-> NULL]
\* Faulty variant: summary_length is taken from the audio path.
RunResultAudioLength(url, pre, success, skipped, error, calls, llm, tts, notif) ==
    [op |-> "process_video_summary", url |-> url, success |-> success,
     skipped |-> skipped, error |-> error,
     video_title |-> IF success THEN pre.title ELSE NULL,
     summary_length |-> IF success THEN Len(tts.payload) ELSE 0,
     calls |-> calls, pre |-> pre, llm |-> llm, tts |-> tts,
     notif |-> notif, tally |-> NULL, counts |-> NoCounts,
     args |-> NoArgs, config |-> NULL, text_saved |-> FALSE]

RunResult(url, pre, success, skipped, error, calls, llm, tts, notif) ==
    [op |-> "process_video_summary", url |-> url, success |-> success,
     skipped |-> skipped, error |-> error,
     video_title |-> IF success THEN pre.title ELSE NULL,
     summary_length |-> IF success THEN Len(llm.payload) ELSE 0,
     calls |-> calls, pre |-> pre, llm |-> llm, tts |-> tts,
     notif |-> notif, tally |-> NULL, counts |-> NoCounts,
     args |-> NoArgs, config |-> NULL, text_saved |-> FALSE]

\* The "except Exception" handler of process_video_summary.
OnException(t, url, pre, calls, llm, tts, notif, now) ==
    [rows |-> MarkSummaryError(t, url, ErrException, now),
     res |-> RunResult(url, pre, FALSE, FALSE, ErrException,
                       calls \cup {"mark_summary_error"}, llm, tts, notif)]

\* return {'success': False, 'error': 'Video not found in database'}
NotFoundReturn(t, url) ==
    [rows |-> t,
     res |-> RunResult(url, NoRow, FALSE, FALSE, ErrNotFound, {},
                       NotCalled, NotCalled, NotCalled)]

\* Faulty variant: a notification failure fails the run.
NotifyFailureFatal(t, url, pre, llm, tts, notif, now) ==
    IF notif.raised \/ notif.status # SUCCESS
    THEN OnException(t, url, pre, {"llm", "tts", "notify"}, llm, tts, notif, now)
    ELSE [rows |-> MarkSummaryProcessed(t, url, llm.payload, tts.payload, now),
          res |-> RunResult(url, pre, TRUE, FALSE, NULL,
                            {"llm", "tts", "notify", "mark_summary_processed"},
                            llm, tts, notif)]

\* Steps 4 and 5 of process_video_summary, entered once the TTS stage has
\* returned SUCCESS: the notification (a failure is only logged) and
\* mark_summary_processed.
NotifyAndMark(t, url, pre, llm, tts, notif, now) ==
    IF notif.raised
    THEN OnException(t, url, pre, {"llm", "tts", "notify"}, llm, tts, notif, now)
    ELSE [rows |-> MarkSummaryProcessed(t, url, llm.payload, tts.payload, now),
          res |-> RunResult(url, pre, TRUE, FALSE, NULL,
                            {"llm", "tts", "notify", "mark_summary_processed"},
                            llm, tts, notif)]

\* Faulty variant: the run goes on after a TTS failure.
TtsFailureIgnored(t, url, pre, llm, tts, now) ==
    [rows |-> MarkSummaryProcessed(t, url, llm.payload, tts.payload, now),
     res |-> RunResult(url, pre, TRUE, FALSE, NULL,
                       {"llm", "tts", "notify", "mark_summary_processed"},
                       llm, tts, NotCalled)]

\* Step 3's failure branch: tts_result.status != SUCCESS.
TtsFailed(t, url, pre, llm, tts, now) ==
    [rows |-> MarkSummaryError(t, url, ErrTts, now),
     res |-> RunResult(url, pre, FALSE, FALSE, ErrTts,
                       {"llm", "tts", "mark_summary_error"},
                       llm, tts, NotCalled)]

\* Faulty variant: the run goes on after an LLM failure.
LlmFailureIgnored(t, url, pre, llm, now) ==
    [rows |-> MarkSummaryProcessed(t, url, NULL, NULL, now),
     res |-> RunResult(url, pre, FALSE, FALSE, ErrLlm,
                       {"llm", "tts", "mark_summary_processed"},
                       llm, NotCalled, NotCalled)]

\* Step 1's failure branch: llm_result.status != SUCCESS.
LlmFailed(t, url, pre, llm, now) ==
    [rows |-> MarkSummaryError(t, url, ErrLlm, now),
     res |-> RunResult(url, pre, FALSE, FALSE, ErrLlm,
                       {"llm", "mark_summary_error"},
                       llm, NotCalled, NotCalled)]

\* Faulty variant: a transcript that cannot be loaded is recorded as a
\* summary error.
LoadFailedRecorded(t, url, pre, now) ==
    [rows |-> MarkSummaryError(t, url, ErrLoad, now),
     res |-> RunResult(url, pre, FALSE, FALSE, ErrLoad,
                       {"mark_summary_error"},
                       NotCalled, NotCalled, NotCalled)]

\* return {'success': False, 'error': 'Failed to load transcript'}: the
\* store is not written.
LoadFailed(t, url, pre, now) ==
    [rows |-> t,
     res |-> RunResult(url, pre, FALSE, FALSE, ErrLoad, {},
                       NotCalled, NotCalled, NotCalled)]

\* process_video_summary(url): the table after the run and the result.
\* llm, tts and notif are what the three managers do if they are called.
ProcessVideoSummary(t, c, url, llm, tts, notif, now) ==
    LET video == GetVideoByUrl(t, url) IN
    IF video = NoRow THEN NotFoundReturn(t, url)
    ELSE IF Falsy(video.transcript_path)
    THEN [rows |-> t,
          res |-> RunResult(url, video, FALSE, TRUE, ErrNoTranscript, {},
                            NotCalled, NotCalled, NotCalled)]
    ELSE IF Falsy(LoadTranscriptByPath(c, video.transcript_path))
    THEN LoadFailed(t, url, video, now)
    ELSE IF llm.raised
    THEN OnException(t, url, video, {"llm"}, llm, NotCalled, NotCalled, now)
    ELSE IF llm.status # SUCCESS
    THEN LlmFailed(t, url, video, llm, now)
    ELSE IF tts.raised
    THEN OnException(t, url, video, {"llm", "tts"}, llm, tts, NotCalled, now)
    ELSE IF tts.status # SUCCESS
    THEN TtsFailed(t, url, video, llm, tts, now)
    ELSE NotifyAndMark(t, url, video, llm, tts, notif, now)

\* Step 2 of process_video_summary is reached when the LLM stage returned
\* SUCCESS: the summary is written to text_dir/summary_{video_id}_{timestamp}
\* .txt.  The file system is taken to accept the write, as the store is
\* taken to execute its statements (a failed write is only logged).
ReachesTextStep(r) ==
    "llm" \in r.calls /\ ~r.llm.raised /\ r.llm.status = SUCCESS

\* Faulty variant: a failed TTS stage removes the video's summary text.
TextDirAfterRunDiscarding(dir, r) ==
    IF ~ReachesTextStep(r) THEN dir
    ELSE IF r.tts.raised \/ r.tts.status # SUCCESS THEN dir \ {r.url}
    ELSE dir \cup {r.url}

\* text_dir after a run with result r: step 2 adds the video's summary text
\* file and no later step touches it.  A file is named by its video.
TextDirAfterRun(dir, r) ==
    IF ReachesTextStep(r) THEN dir \cup {r.url} ELSE dir

\* The tally of process_channel_summaries for one result:
\* success -> processed, elif skipped -> skipped, else failed.
Tally(r) ==
    IF r.success THEN "processed"
    ELSE IF r.skipped THEN "skipped" ELSE "failed"

\* The result of an operation other than a pipeline run.
OpResult(op, url, success, pre, counts, args) ==
    [op |-> op, url |-> url, success |-> success, skipped |-> FALSE,
     error |-> NULL, video_title |-> NULL, summary_length |-> 0,
     calls |-> {}, pre |-> pre, llm |-> NotCalled, tts |-> NotCalled,
     notif |-> NotCalled, tally |-> NULL, counts |-> counts, args |-> args,
     config |-> NULL, text_saved |-> FALSE]

\* get_summary_enabled_channels(): the channels with a summary
\* configuration, in configuration order; a channel's name stands for its
\* url as well.
SummaryEnabledChannels == <<"c1", "c2">>

\* get_channel_summary_config(channel_name): the summary configuration of
\* the channel, identified here by the channel; None for no channel.
GetChannelSummaryConfig(channel) == channel

\* The limit argument of the batch drivers (None is NoLimit).
MaxLimit == 1
LIMITS == 0..MaxLimit

Idle ==
    [kind |-> "idle", chans |-> <<>>, chan |-> NULL, queue |-> <<>>,
     limit |-> NoLimit, force |-> FALSE, processed |-> 0, failed |-> 0,
     skipped |-> 0, pulled |-> 0]

Urls(videos) == [i \in 1..Len(videos) |-> videos[i].url]

\* The columns retry_failed_summaries reads of each pulled row.
Pulled(videos) ==
    [i \in 1..Len(videos) |->
        [url |-> videos[i].url, channel_url |-> videos[i].channel_url]]

----------------------------------------------------------------------------
(* Store and pipeline: the state machine *)

Init ==
    /\ rows = <<>>
    /\ cache = [p \in PATHS |-> MISSING]
    /\ clock = 0
    /\ res = OpResult("init", NULL, TRUE, NoRow, NoCounts, NoArgs)
    /\ batch = Idle
    /\ mgr = NULL
    /\ providers = <<>>
    /\ meta = <<>>
    /\ live = <<>>
    /\ mres = NULL
    /\ configs = <<>>
    /\ built = <<>>
    /\ prov = NULL
    /\ pres = NULL
    /\ textdir = {}
    /\ procs = NULL
    /\ scrape = NULL
    /\ tg = NULL

\* database.save_video(video_data, transcript_path), as called by
\* _process_video and by YouTubeService.get_video_transcript.
SaveVideo(url, title, channel, path) ==
    LET data == [url |-> url, title |-> title, channel_url |-> channel] IN
    /\ batch.kind = "idle"
    /\ clock < MaxClock
    /\ rows' = SaveVideoRows(rows, data, path, clock + 1)
    /\ clock' = clock + 1
    /\ res' = OpResult("save_video", url, SaveVideoOk(rows, data),
                       GetVideoByUrl(rows, url), NoCounts,
                       [title |-> title, channel_url |-> channel,
                        transcript_path |-> path])
    /\ UNCHANGED <<cache, batch, textdir, mgrVars, provVars,
                 scrape, tg, procs>>

\* cache_manager.save_transcript: the file at path now holds the transcript.
CacheSave(path, text) ==
    /\ batch.kind = "idle"
    /\ cache[path] # text
    /\ cache' = [cache EXCEPT ![path] = text]
    /\ UNCHANGED <<rows, clock, res, batch, textdir, mgrVars, provVars,
                 scrape, tg, procs>>

\* The cache file at path is deleted from outside (the record goes stale).
CacheDelete(path) ==
    /\ batch.kind = "idle"
    /\ cache[path] # MISSING
    /\ cache' = [cache EXCEPT ![path] = MISSING]
    /\ UNCHANGED <<rows, clock, res, batch, textdir, mgrVars, provVars,
                 scrape, tg, procs>>

\* One run of process_video_summary(url, config); a run that writes reads
\* the clock.
RunPipeline(url, llm, tts, notif, tallyOf, config) ==
    LET r == ProcessVideoSummary(rows, cache, url, llm, tts, notif, clock + 1) IN
    /\ clock < MaxClock
    /\ rows' = r.rows
    /\ textdir' = TextDirAfterRun(textdir, r.res)
    /\ res' = [r.res EXCEPT !.tally = tallyOf[Tally(r.res)],
                            !.config = config,
                            !.text_saved = ReachesTextStep(r.res)]
    /\ clock' = IF r.rows = rows THEN clock ELSE clock + 1

NoTally == [x \in {"processed", "skipped", "failed"} |-> NULL]
ChannelTally == [x \in {"processed", "skipped", "failed"} |-> x]
RetryTally ==
    [x \in {"processed", "skipped", "failed"} |->
        IF x = "processed" THEN "processed" ELSE "failed"]

Bump(b, tally) ==
    [b EXCEPT !.queue = Tail(b.queue),
              !.processed = @ + (IF tally = "processed" THEN 1 ELSE 0),
              !.failed = @ + (IF tally = "failed" THEN 1 ELSE 0),
              !.skipped = @ + (IF tally = "skipped" THEN 1 ELSE 0)]

\* process_video_summary(url) called on its own.
DirectRun(url, llm, tts, notif) ==
    /\ batch.kind = "idle"
    /\ RunPipeline(url, llm, tts, notif, NoTally, NULL)
    /\ UNCHANGED <<cache, batch, mgrVars, provVars, scrape, tg, procs>>

\* process_channel_summaries(channel_name, limit, force): the channels to
\* process are resolved.  With scrape_first the scrape pass has run before
\* this point; its writes are those of SaveVideo and CacheSave.  force is
\* handed to the scrape pass as force_refresh and is read nowhere else.
PcsStart(name, limit, force) ==
    /\ batch.kind = "idle"
    /\ batch' = [Idle EXCEPT !.kind = "channels", !.limit = limit,
                             !.force = force,
                             !.chans = IF name = NULL
                                       THEN SummaryEnabledChannels
                                       ELSE <<name>>]
    /\ res' = OpResult("process_channel_summaries:start", NULL, TRUE, NoRow,
                       NoCounts, NoArgs)
    /\ UNCHANGED <<rows, cache, clock, textdir, mgrVars, provVars,
                 scrape, tg, procs>>

\* "for channel_info in channels": the next channel's unsummarized videos
\* are pulled.
PcsChannel ==
    /\ batch.kind = "channels"
    /\ batch.queue = <<>>
    /\ batch.chans # <<>>
    /\ LET videos == GetUnsummarizedVideos(rows, Head(batch.chans), batch.limit)
       IN batch' = [batch EXCEPT !.chans = Tail(batch.chans),
                                 !.chan = Head(batch.chans),
                                 !.queue = Urls(videos),
                                 !.pulled = @ + Len(videos)]
    /\ UNCHANGED <<rows, cache, clock, res, textdir, mgrVars, provVars,
                 scrape, tg, procs>>

\* "for video in videos": the pipeline runs on the next video and the
\* result is tallied.
PcsVideo(llm, tts, notif) ==
    /\ batch.kind = "channels"
    /\ batch.queue # <<>>
    /\ RunPipeline(Head(batch.queue), llm, tts, notif, ChannelTally,
                   GetChannelSummaryConfig(batch.chan))
    /\ batch' = Bump(batch, res'.tally)
    /\ UNCHANGED <<cache, mgrVars, provVars, scrape, tg, procs>>

\* The totals are returned.
PcsReturn ==
    /\ batch.kind = "channels"
    /\ batch.queue = <<>>
    /\ batch.chans = <<>>
    /\ res' = OpResult("process_channel_summaries", NULL, TRUE, NoRow,
                       [processed |-> batch.processed,
                        failed |-> batch.failed,
                        skipped |-> batch.skipped], NoArgs)
    /\ batch' = Idle
    /\ UNCHANGED <<rows, cache, clock, textdir, mgrVars, provVars,
                 scrape, tg, procs>>

\* retry_failed_summaries(limit): the failed rows are pulled; with none the
\* call returns at once.
RetryStart(limit) ==
    /\ batch.kind = "idle"
    /\ LET videos == GetFailedSummaries(rows, limit) IN
       /\ batch' = IF videos = <<>> THEN Idle
                   ELSE [Idle EXCEPT !.kind = "retry", !.limit = limit,
                                     !.queue = Pulled(videos),
                                     !.pulled = Len(videos)]
       /\ res' = OpResult(IF videos = <<>> THEN "retry_failed_summaries"
                          ELSE "retry_failed_summaries:start",
                          NULL, TRUE, NoRow, NoCounts, NoArgs)
    /\ UNCHANGED <<rows, cache, clock, textdir, mgrVars, provVars,
                 scrape, tg, procs>>

\* "for video in failed_videos": the pipeline runs on the next failed video.
RetryVideo(llm, tts, notif) ==
    /\ batch.kind = "retry"
    /\ batch.queue # <<>>
    /\ RunPipeline(Head(batch.queue).url, llm, tts, notif, RetryTally,
                   GetChannelSummaryConfig(Head(batch.queue).channel_url))
    /\ batch' = Bump(batch, res'.tally)
    /\ UNCHANGED <<cache, mgrVars, provVars, scrape, tg, procs>>

RetryReturn ==
    /\ batch.kind = "retry"
    /\ batch.queue = <<>>
    /\ res' = OpResult("retry_failed_summaries", NULL, TRUE, NoRow,
                       [processed |-> batch.processed,
                        failed |-> batch.failed,
                        skipped |-> batch.skipped], NoArgs)
    /\ batch' = Idle
    /\ UNCHANGED <<rows, cache, clock, textdir, mgrVars, provVars,
                 scrape, tg, procs>>

Next ==
    \/ \E url \in URLS, title \in TITLES, channel \in CHANNELS,
          path \in PATHS \cup {NULL} : SaveVideo(url, title, channel, path)
    \/ \E path \in PATHS, text \in TEXTS : CacheSave(path, text)
    \/ \E path \in PATHS : CacheDelete(path)
    \/ \E url \in URLS, o \in StageOutcomes : DirectRun(url, o[1], o[2], o[3])
    \/ \E name \in {NULL} \cup CHANNELS, limit \in LIMITS, force \in BOOLEAN :
          PcsStart(name, limit, force)
    \/ PcsChannel
    \/ \E o \in StageOutcomes : PcsVideo(o[1], o[2], o[3])
    \/ PcsReturn
    \/ \E limit \in LIMITS : RetryStart(limit)
    \/ \E o \in StageOutcomes : RetryVideo(o[1], o[2], o[3])
    \/ RetryReturn

Spec == Init /\ [][Next]_vars

----------------------------------------------------------------------------
(* Properties of the store and the pipeline, checked under Spec *)

IsRun == res.op = "process_video_summary"
Row(url) == GetVideoByUrl(rows, url)
Returned(o, status) == ~o.raised /\ o.status = status

\* C1: in every reachable store state, every row with summary_processed =
\* TRUE has summary_error = NULL.
C1_StateExclusivity ==
    \A i \in 1..Len(rows) :
        rows[i].summary_processed => rows[i].summary_error = NULL

\* C2: the table never holds two rows with one url; after save_video(url)
\* it holds exactly one, carrying the saved mutable fields and a fresh
\* updated_at; when the row existed before, its created_at is unchanged.
C2_IdempotentUpsert ==
    /\ \A u \in URLS : Cardinality(RowIdx(rows, u)) <= 1
    /\ res.op = "save_video" =>
          /\ res.success
          /\ Cardinality(RowIdx(rows, res.url)) = 1
          /\ Row(res.url).channel_url = res.args.channel_url
          /\ Row(res.url).transcript_path = res.args.transcript_path
          /\ Row(res.url).title = res.args.title
          /\ Row(res.url).updated_at = clock
          /\ IF res.pre = NoRow
             THEN Row(res.url).created_at = clock
             ELSE /\ Row(res.url).created_at = res.pre.created_at
                  /\ Row(res.url).updated_at > res.pre.updated_at

\* C2 witness: a save_video on an existing row that changed a mutable field.
C2_Witness ==
    /\ res.op = "save_video"
    /\ res.pre # NoRow
    /\ res.pre.transcript_path # Row(res.url).transcript_path
    /\ res.pre.channel_url # Row(res.url).channel_url

\* C3: a run whose LLM and TTS stages return SUCCESS and whose notification
\* stage returns FAILED returns success = TRUE and leaves the row with
\* summary_processed = TRUE and a non-null summary_audio_path.
C3_NotificationNonFatal ==
    (/\ IsRun
     /\ Returned(res.llm, SUCCESS)
     /\ Returned(res.tts, SUCCESS)
     /\ Returned(res.notif, FAILED))
    => /\ res.success
       /\ Row(res.url).summary_processed
       /\ Row(res.url).summary_audio_path # NULL

C3_Witness ==
    /\ IsRun
    /\ Returned(res.llm, SUCCESS)
    /\ Returned(res.tts, SUCCESS)
    /\ Returned(res.notif, FAILED)
    /\ ~res.pre.summary_processed

\* C4: when the LLM manager returns a non-SUCCESS result the run records
\* summary_error, returns success = FALSE, invokes neither TTS nor
\* notification nor mark_summary_processed, and leaves summary_processed,
\* summary_text and summary_audio_path of the row as they were.
C4_LlmFailureStops ==
    (IsRun /\ "llm" \in res.calls /\ ~res.llm.raised /\ res.llm.status # SUCCESS)
    => /\ ~res.success
       /\ Row(res.url).summary_error = ErrLlm
       /\ res.error = ErrLlm
       /\ res.calls \cap {"tts", "notify", "mark_summary_processed"} = {}
       /\ res.tts = NotCalled /\ res.notif = NotCalled
       /\ Row(res.url).summary_processed = res.pre.summary_processed
       /\ Row(res.url).summary_text = res.pre.summary_text
       /\ Row(res.url).summary_audio_path = res.pre.summary_audio_path

\* C4 witness: the LLM failed on a row that was already summarized.
C4_Witness ==
    /\ IsRun
    /\ Returned(res.llm, FAILED)
    /\ res.pre.summary_processed
    /\ res.pre.summary_text # NULL

\* C5: when the TTS manager returns a non-SUCCESS result after the LLM stage
\* succeeded the run records summary_error, returns success = FALSE and
\* invokes neither notification nor mark_summary_processed.
C5_TtsFailureStops ==
    (/\ IsRun
     /\ Returned(res.llm, SUCCESS)
     /\ "tts" \in res.calls /\ ~res.tts.raised /\ res.tts.status # SUCCESS)
    => /\ ~res.success
       /\ Row(res.url).summary_error = ErrTts
       /\ res.error = ErrTts
       /\ res.calls \cap {"notify", "mark_summary_processed"} = {}
       /\ res.notif = NotCalled

C5_Witness ==
    /\ IsRun
    /\ Returned(res.llm, SUCCESS)
    /\ Returned(res.tts, FAILED)

C7_Scenario ==
    /\ IsRun
    /\ res.pre # NoRow
    /\ res.pre.title = "T"
    /\ res.pre.transcript_path # NULL
    /\ LoadTranscriptByPath(cache, res.pre.transcript_path) = "hello world"
    /\ res.llm = [raised |-> FALSE, status |-> SUCCESS, payload |-> "Summary of T"]
    /\ res.tts = [raised |-> FALSE, status |-> SUCCESS, payload |-> "out.wav"]
    /\ Returned(res.notif, SUCCESS)

C7_RowSummarized ==
    /\ Row(res.url).summary_processed
    /\ Row(res.url).summary_text = "Summary of T"
    /\ Row(res.url).summary_audio_path = "out.wav"

\* C7 as stated: the scenario returns success = TRUE, video_title = "T" and
\* summary_length = 15, and the row is summarized.
C7_EndToEnd_Stated ==
    C7_Scenario
    => /\ res.success
       /\ res.video_title = "T"
       /\ res.summary_length = 15
       /\ C7_RowSummarized

\* C7 amended: the scenario returns success = TRUE, video_title = "T" and
\* summary_length = 12, the number of characters of "Summary of T", and the
\* row is summarized.
C7_EndToEnd ==
    C7_Scenario
    => /\ res.success
       /\ res.video_title = "T"
       /\ res.summary_length = 12
       /\ C7_RowSummarized

C7_Witness == C7_Scenario /\ res.success

\* C8: a run on a url with no row, or whose row has no transcript_path,
\* carries skipped = TRUE, is tallied as skipped and not as failed, and
\* invokes no LLM, TTS or notification stage.
C8_SkippedWhenAbsentOrNoTranscript ==
    (IsRun /\ (res.pre = NoRow \/ Falsy(res.pre.transcript_path)))
    => /\ ~res.success
       /\ res.skipped
       /\ Tally(res) = "skipped"
       /\ res.calls = {}

\* The limit argument does not cut the list s short.
NotTruncated(s, limit) == limit = NoLimit \/ Len(s) <= limit

\* C18: for every channel filter and limit, a row with summary_processed =
\* FALSE, summary_error = NULL and a transcript_path (and the channel asked
\* for, when one is given) is returned by get_unsummarized_videos whenever
\* the limit does not truncate the list, and no returned row has
\* summary_processed = TRUE or lacks a transcript_path.
C18_UnsummarizedEligibility ==
    \A ch \in CHANNELS \cup {NULL}, limit \in LIMITS :
        LET out == GetUnsummarizedVideos(rows, ch, limit)
            all == GetUnsummarizedVideos(rows, ch, NoLimit)
        IN /\ \A i \in DOMAIN rows :
                 (/\ rows[i].summary_processed = FALSE
                  /\ rows[i].summary_error = NULL
                  /\ rows[i].transcript_path # NULL
                  /\ (ch = NULL \/ rows[i].channel_url = ch)
                  /\ NotTruncated(all, limit))
                 => rows[i] \in Range(out)
           /\ \A v \in Range(out) :
                 v.summary_processed = FALSE /\ v.transcript_path # NULL

\* process_channel_summaries has pulled an eligible row for its channel
\* while the table also holds a summarized row of that channel, which was
\* left out.
C18_Witness ==
    /\ batch.kind = "channels"
    /\ \E i \in DOMAIN rows :
          /\ rows[i].summary_processed = FALSE
          /\ rows[i].summary_error = NULL
          /\ rows[i].transcript_path # NULL
          /\ rows[i].url \in Range(batch.queue)
    /\ \E j \in DOMAIN rows :
          /\ rows[j].summary_processed = TRUE
          /\ rows[j].channel_url = batch.chan
          /\ rows[j].url \notin Range(batch.queue)

\* A retry loop runs the pipeline once for each pulled row, with the
\* summary configuration of the row's own channel.
RetryRunsEachOnce ==
    /\ batch.kind = "retry"
       => batch.processed + batch.failed + Len(batch.queue) = batch.pulled
    /\ (batch.kind = "retry" /\ IsRun /\ res.pre # NoRow)
       => res.config = GetChannelSummaryConfig(res.pre.channel_url)

C20_ErrorLeftOnlyBySuccess ==
    [][\A url \in URLS :
          (/\ Row(url) # NoRow
           /\ Row(url).summary_error # NULL
           /\ GetVideoByUrl(rows', url).summary_error = NULL)
          => (/\ res'.op = "process_video_summary"
              /\ res'.url = url
              /\ res'.success)]_vars

\* save_video has re-saved a row that carried a summary_error, and the row
\* still carries it.
C20_Witness ==
    /\ res.op = "save_video"
    /\ res.pre.summary_error # NULL
    /\ Row(res.url).summary_error # NULL

\* out is the first min(n, number of eligible rows) rows of the eligible
\* rows in the order of created_at (all of them when no limit is given).
FirstByCreatedAt(out, eligible, n, desc) ==
    LET Before(a, b) == IF desc THEN a.created_at >= b.created_at
                                ELSE a.created_at <= b.created_at
    IN /\ Range(out) \subseteq eligible
       /\ Cardinality(Range(out)) = Len(out)
       /\ Len(out) = IF n = NoLimit \/ Cardinality(eligible) <= n
                     THEN Cardinality(eligible) ELSE n
       /\ \A i, j \in DOMAIN out : i < j => Before(out[i], out[j])
       /\ \A v \in eligible \ Range(out), w \in Range(out) : Before(w, v)

\* C21: for every channel and limit, get_videos_by_channel returns the
\* channel's rows newest first, get_unsummarized_videos returns the rows
\* with summary_processed = FALSE and a transcript_path oldest first, and
\* get_unprocessed_videos returns the rows with a transcript_path that no
\* LLM processing has been recorded for oldest first (the table has no
\* llm_processed column, so no row has it recorded); each returns the first
\* min(n, number of eligible rows) rows of its order.
C21_QueryOrder ==
    \A limit \in LIMITS :
        /\ \A ch \in CHANNELS :
              FirstByCreatedAt(GetVideosByChannel(rows, ch, limit),
                               {r \in Range(rows) : r.channel_url = ch},
                               limit, TRUE)
        /\ \A ch \in CHANNELS \cup {NULL} :
              FirstByCreatedAt(GetUnsummarizedVideos(rows, ch, limit),
                               {r \in Range(rows) :
                                   /\ r.summary_processed = FALSE
                                   /\ r.transcript_path # NULL
                                   /\ (ch = NULL \/ r.channel_url = ch)},
                               limit, FALSE)
        /\ FirstByCreatedAt(GetUnprocessedVideos(rows, limit),
                            {r \in Range(rows) : r.transcript_path # NULL},
                            limit, FALSE)

\* The run recorded in r got a SUCCESS from the LLM stage and then a failure
\* (a FAILED result or an exception) from the TTS stage.
TtsFailedAfterLlm(r) ==
    /\ r.op = "process_video_summary"
    /\ ReachesTextStep(r)
    /\ "tts" \in r.calls
    /\ (r.tts.raised \/ r.tts.status # SUCCESS)

\* C29: a step that ends with a run whose TTS stage failed after its LLM
\* stage succeeded removes no summary text file, leaves the file the run
\* wrote on disk, and changes nothing in the table but summary_error (which
\* is set) and updated_at of the run's row.
C29_TtsFailureKeepsText ==
    [][TtsFailedAfterLlm(res')
       => /\ textdir \subseteq textdir'
          /\ res'.text_saved => res'.url \in textdir'
          /\ Len(rows') = Len(rows)
          /\ GetVideoByUrl(rows', res'.url).summary_error # NULL
          /\ \A i \in DOMAIN rows :
                rows'[i] = IF rows[i].url = res'.url
                           THEN [rows[i] EXCEPT
                                    !.summary_error = rows'[i].summary_error,
                                    !.updated_at = rows'[i].updated_at]
                           ELSE rows[i]]_vars

\* A run on a row that was already summarized wrote its summary text file
\* and then had its TTS stage return FAILED: the file is on disk and the row
\* keeps its earlier summary_processed, summary_text and summary_audio_path
\* next to the new summary_error.
C29_Witness ==
    /\ TtsFailedAfterLlm(res) /\ ~res.tts.raised
    /\ res.text_saved /\ res.url \in textdir
    /\ res.pre.summary_processed /\ res.pre.summary_error = NULL
    /\ Row(res.url).summary_processed
    /\ Row(res.url).summary_text = res.pre.summary_text
    /\ Row(res.url).summary_audio_path = res.pre.summary_audio_path
    /\ Row(res.url).summary_error = ErrTts

----------------------------------------------------------------------------
(* The capability managers: LLMManager, TTSManager, NotificationManager.   *)
(* Each keeps a registry of provider instances keyed by instance name,     *)
(* built once from the configured instance list, and dispatches a request  *)
(* to a named instance or to an automatically selected one.                *)

\* Longest configured instance list.
MaxCfg == 3

MANAGERS == {"llm", "tts", "notification"}
NAMES == {"A", "B", "C"}
TYPES == {"llamacpp", "kokoro", "telegram"}

\* A name no configuration entry carries.
UNREGISTERED == "Z"

\* ProviderInstanceConfig(name, type, enabled); type is already lower-cased.
ProviderInstanceConfig == [name : NAMES, type : TYPES, enabled : BOOLEAN]

\* The instance lists a configuration can hold.
ProviderInstances ==
    UNION {[1..n -> ProviderInstanceConfig] : n \in 0..MaxCfg}

\* The provider types a manager can construct.
KnownTypes(m) ==
    IF m = "llm" THEN {"llamacpp", "anthropic", "openai", "ollama"}
    ELSE IF m = "tts" THEN {"kokoro"}
    ELSE {"telegram"}

\* The instance names of a registry, in registration order.
Names(reg) == [k \in DOMAIN reg |-> reg[k].name]

\* The registry with the provider registered under c.name replaced by the
\* one built from entry i (a dict assignment to an existing key keeps the
\* key's position).
Overwrite(reg, c, i) ==
    [k \in DOMAIN reg |-> IF reg[k].name = c.name
                          THEN [name |-> c.name, entry |-> i]
                          ELSE reg[k]]

RECURSIVE InitializeProvidersOverwriting(_, _, _, _)
InitializeProvidersOverwriting(m, cfgs, i, reg) ==
    IF i > Len(cfgs) THEN reg
    ELSE LET c == cfgs[i]
             skip == \/ (m # "notification" /\ c.name = "")
                     \/ ~c.enabled
                     \/ c.type \notin KnownTypes(m)
         IN InitializeProvidersOverwriting(m, cfgs, i + 1,
                IF skip THEN reg
                ELSE IF c.name \in Range(Names(reg)) THEN Overwrite(reg, c, i)
                ELSE Append(reg, [name |-> c.name, entry |-> i]))

\* _initialize_providers: entries are visited in configuration order, from
\* position i on; a disabled entry, an entry without a name (LLM and TTS
\* only), an entry whose name is already registered and an entry of unknown
\* type are skipped; every other entry builds a provider that is registered
\* under its name.  reg is the registry so far, in registration order: the
\* name of each provider and the position of the entry that built it.
RECURSIVE InitializeProviders(_, _, _, _)
InitializeProviders(m, cfgs, i, reg) ==
    IF i > Len(cfgs) THEN reg
    ELSE LET c == cfgs[i]
             skip == \/ (m # "notification" /\ c.name = "")
                     \/ ~c.enabled
                     \/ c.name \in Range(Names(reg))
                     \/ c.type \notin KnownTypes(m)
         IN InitializeProviders(m, cfgs, i + 1,
                IF skip THEN reg
                ELSE Append(reg, [name |-> c.name, entry |-> i]))

\* error_details of a refused dispatch.
ErrEmpty == "cannot be empty"
ErrNoneConfigured == "No provider instances are configured"
ErrNotAvailable == "is not available"
ErrNotConfigured == "is not properly configured"

\* The record of the last dispatch: the instance asked for (NULL for
\* automatic selection), whether the payload was blank, the instance the
\* manager settled on, the provider that was called (NULL if none), what came
\* back to the caller, and the instances whose is_configured() was true
\* during the call.  op names the manager method; cleaned is the set of
\* instances whose cleanup() a cleanup_all() has called and raisers the set
\* of instances whose cleanup() raises.
NoDispatch ==
    [requested |-> NULL, blank |-> FALSE, selected |-> NULL, called |-> NULL,
     status |-> NULL, error |-> NULL, payload |-> NULL, raised |-> FALSE,
     configured |-> {}, done |-> FALSE, op |-> "none", cleaned |-> {},
     raisers |-> {}]

Refused(requested, blank, selected, error) ==
    [NoDispatch EXCEPT !.requested = requested, !.blank = blank,
                       !.selected = selected, !.status = FAILED,
                       !.error = error, !.done = TRUE, !.op = "dispatch"]

\* provider.is_configured() as evaluated at construction and recorded in
\* _provider_instances[name]['configured'].
IsConfiguredAtInit(name) == meta[name]

\* provider.is_configured(), evaluated now.
IsConfigured(name) == live[name]

\* get_available_instances: the configured instances, in registry order.
GetAvailableInstances == SelectSeq(providers, IsConfigured)

\* get_provider_instance: the registry entry, or NULL.
GetProviderInstance(name) ==
    IF name \in Range(providers) THEN name ELSE NULL

\* The provider call and the return of its result; a provider exception is
\* not caught by the manager.
CallProvider(requested, name, out) ==
    [NoDispatch EXCEPT !.requested = requested, !.selected = name,
                       !.called = name, !.status = out.status,
                       !.payload = out.payload, !.raised = out.raised,
                       !.done = TRUE, !.op = "dispatch"]

DispatchToUnchecked(requested, name, out) == CallProvider(requested, name, out)

\* Registry lookup, configuration check and provider call of a dispatch.
DispatchTo(requested, name, out) ==
    IF GetProviderInstance(name) = NULL
    THEN Refused(requested, FALSE, name, ErrNotAvailable)
    ELSE IF ~IsConfigured(name)
    THEN Refused(requested, FALSE, name, ErrNotConfigured)
    ELSE CallProvider(requested, name, out)

\* generate_response / generate_speech / send_message.
ManagerDispatch(requested, blank, out) ==
    IF blank THEN Refused(requested, TRUE, NULL, ErrEmpty)
    ELSE IF requested = NULL
    THEN IF GetAvailableInstances = <<>>
         THEN Refused(NULL, FALSE, NULL, ErrNoneConfigured)
         ELSE DispatchTo(NULL, Head(GetAvailableInstances), out)
    ELSE DispatchTo(requested, requested, out)

\* What a provider of the manager can answer.
ProviderOutcomes(m) ==
    IF m = "llm" THEN LlmOutcomes
    ELSE IF m = "tts" THEN TtsOutcomes
    ELSE NotifOutcomes

\* A manager after construction: the registry is built from a configured
\* list and each registered provider's configuration state is recorded.
MgrInit ==
    /\ rows = <<>>
    /\ cache = [p \in PATHS |-> MISSING]
    /\ clock = 0
    /\ res = OpResult("init", NULL, TRUE, NoRow, NoCounts, NoArgs)
    /\ batch = Idle
    /\ mgr \in MANAGERS
    /\ \E cfgs \in ProviderInstances :
          providers = Names(InitializeProviders(mgr, cfgs, 1, <<>>))
    /\ live \in [Range(providers) -> BOOLEAN]
    /\ meta = live
    /\ mres = NoDispatch
    /\ configs = <<>>
    /\ built = <<>>
    /\ prov = NULL
    /\ pres = NULL
    /\ textdir = {}
    /\ procs = NULL
    /\ scrape = NULL
    /\ tg = NULL

\* The model file of a LlamaCpp instance appears or disappears: the
\* provider's is_configured() consults the file system on every call, while
\* the Kokoro and Telegram providers decide from their constructor arguments.
ModelFileChange(name) ==
    /\ mgr = "llm"
    /\ name \in Range(providers)
    /\ live' = [live EXCEPT ![name] = ~@]
    /\ UNCHANGED <<mgr, providers, meta, mres, storeVars, provVars, scrape, tg, procs>>

\* One dispatch through the manager.
Dispatch(requested, blank, out) ==
    /\ out \in ProviderOutcomes(mgr)
    /\ mres' = [ManagerDispatch(requested, blank, out)
                   EXCEPT !.configured = {n \in Range(providers) : live[n]}]
    /\ UNCHANGED <<mgr, providers, meta, live, storeVars, provVars, scrape, tg, procs>>

\* The loop of cleanup_all over the registry values: each provider's
\* cleanup() is called inside try/except Exception, so an exception is
\* logged and the loop goes on.  r is the record so far.
RECURSIVE CleanupLoop(_, _, _)
CleanupLoop(names, raisers, r) ==
    IF names = <<>> THEN r
    ELSE CleanupLoop(Tail(names), raisers,
                     [r EXCEPT !.cleaned = @ \cup {Head(names)}])

\* manager.cleanup_all().  LLMManager and TTSManager define it;
\* NotificationManager has no such attribute, so the call raises
\* AttributeError.
ManagerCleanupAll(m, names, raisers) ==
    LET r == [NoDispatch EXCEPT !.op = "cleanup_all", !.raisers = raisers]
    IN IF m = "notification" THEN [r EXCEPT !.raised = TRUE]
       ELSE CleanupLoop(names, raisers, r)

CleanupAll(raisers) ==
    /\ raisers \subseteq Range(providers)
    /\ mres' = ManagerCleanupAll(mgr, providers, raisers)
    /\ UNCHANGED <<mgr, providers, meta, live, storeVars, provVars, scrape, tg, procs>>

MgrNext ==
    \/ \E raisers \in SUBSET NAMES : CleanupAll(raisers)
    \/ \E name \in NAMES : ModelFileChange(name)
    \/ \E requested \in NAMES \cup {UNREGISTERED, NULL}, blank \in BOOLEAN,
          out \in LlmOutcomes \cup TtsOutcomes \cup NotifOutcomes :
          Dispatch(requested, blank, out)

MgrSpec == MgrInit /\ [][MgrNext]_vars

----------------------------------------------------------------------------
(* Properties of manager dispatch, checked under MgrSpec *)

\* The first registered instance that was configured during the last
\* dispatch, or NULL.
FirstConfiguredAtCall ==
    LET ix == {i \in DOMAIN providers : providers[i] \in mres.configured}
    IN IF ix = {} THEN NULL
       ELSE providers[CHOOSE i \in ix : \A j \in ix : i <= j]

\* C9: a dispatch with no instance name and a non-blank payload settles on
\* the first instance, in registration order, whose is_configured() is true
\* at call time and calls that provider; when no instance is configured it
\* returns FAILED "no instances configured", calls no provider and raises
\* nothing.
C9_AutoSelectsFirstConfigured ==
    (mres.done /\ mres.requested = NULL /\ ~mres.blank)
    => IF FirstConfiguredAtCall = NULL
       THEN /\ mres.status = FAILED
            /\ mres.error = ErrNoneConfigured
            /\ mres.called = NULL
            /\ ~mres.raised
       ELSE /\ mres.selected = FirstConfiguredAtCall
            /\ mres.called = FirstConfiguredAtCall

\* Instances [A, B, C] registered in that order; at call time A is not
\* configured and B and C are, although at construction A was configured and
\* B was not; the dispatch with no instance name called B.
C9_Witness ==
    /\ mres.done /\ mres.requested = NULL /\ ~mres.blank
    /\ providers = <<"A", "B", "C">>
    /\ mres.configured = {"B", "C"}
    /\ meta["A"] /\ ~meta["B"]
    /\ mres.called = "B"
    /\ mres.status = SUCCESS

\* C10: a dispatch with a non-blank payload naming an instance that is not
\* in the registry returns FAILED "not available"; one naming a registered
\* instance whose is_configured() is false returns FAILED "not properly
\* configured"; in both cases no provider is called and nothing is raised.
C10_NamedDispatchRefused ==
    (mres.done /\ mres.requested # NULL /\ ~mres.blank)
    => /\ mres.requested \notin Range(providers)
          => /\ mres.status = FAILED
             /\ mres.error = ErrNotAvailable
             /\ mres.called = NULL
             /\ ~mres.raised
       /\ (mres.requested \in Range(providers)
           /\ mres.requested \notin mres.configured)
          => /\ mres.status = FAILED
             /\ mres.error = ErrNotConfigured
             /\ mres.called = NULL
             /\ ~mres.raised

\* A registered instance that was configured at construction and is not
\* configured now was named, and the dispatch was refused.
C10_Witness ==
    /\ mres.done /\ mres.requested # NULL /\ ~mres.blank
    /\ mres.requested \in Range(providers)
    /\ mres.requested \notin mres.configured
    /\ meta[mres.requested]
    /\ mres.error = ErrNotConfigured

\* C16: on each of the three managers, cleanup_all() calls cleanup() on
\* every registered instance; an exception raised by one instance's cleanup
\* keeps no other instance from being cleaned up and does not reach the
\* caller.
C16_CleanupAllSwallows ==
    mres.op = "cleanup_all"
    => /\ ~mres.raised
       /\ mres.cleaned = Range(providers)

\* C17: an exception raised by the provider's primary action during a
\* dispatch does not propagate to the caller of the manager.
C17_DispatchCatchesProviderException ==
    mres.op = "dispatch" => ~mres.raised

----------------------------------------------------------------------------
(* Construction of a manager: __init__ calls _initialize_providers on the  *)
(* configured instance list.                                               *)

\* A manager about to be constructed from a configured instance list.
CtorInit ==
    /\ rows = <<>>
    /\ cache = [p \in PATHS |-> MISSING]
    /\ clock = 0
    /\ res = OpResult("init", NULL, TRUE, NoRow, NoCounts, NoArgs)
    /\ batch = Idle
    /\ mgr \in MANAGERS
    /\ configs \in ProviderInstances
    /\ providers = <<>>
    /\ built = <<>>
    /\ meta = <<>>
    /\ live = <<>>
    /\ mres = NoDispatch
    /\ prov = NULL
    /\ pres = NULL
    /\ textdir = {}
    /\ procs = NULL
    /\ scrape = NULL
    /\ tg = NULL

\* __init__: the registry is built from the configured list.
Construct ==
    /\ mres.op = "none"
    /\ LET reg == InitializeProviders(mgr, configs, 1, <<>>)
       IN /\ providers' = Names(reg)
          /\ built' = [n \in Range(Names(reg)) |->
                          (CHOOSE r \in Range(reg) : r.name = n).entry]
    /\ mres' = [NoDispatch EXCEPT !.op = "__init__"]
    /\ UNCHANGED <<mgr, configs, meta, live, prov, pres, storeVars, scrape, tg, procs>>

CtorNext == Construct

CtorSpec == CtorInit /\ [][CtorNext]_vars

----------------------------------------------------------------------------
(* Properties of manager construction, checked under CtorSpec *)

Constructed == mres.op = "__init__"

Min(S) == CHOOSE i \in S : \A j \in S : i <= j

\* The positions of the entries named n.
EntriesNamed(n) == {i \in DOMAIN configs : configs[i].name = n}

\* The positions of the entries named n that are enabled and of a type the
\* manager can construct.
UsableEntriesNamed(n) ==
    {i \in EntriesNamed(n) :
        configs[i].enabled /\ configs[i].type \in KnownTypes(mgr)}

----------------------------------------------------------------------------
(* One provider instance.  The LLM and TTS providers build their backend   *)
(* (model, pipeline, voice or client) on first use and keep it in a handle *)
(* field next to a flag saying that the construction was attempted; the    *)
(* Telegram provider has no such backend and posts to the Bot API.         *)

LlmTypes == {"llamacpp", "anthropic", "openai", "ollama"}
TtsTypes == {"kokoro", "piper"}
LazyTypes == LlmTypes \cup TtsTypes
PROVIDER_TYPES == LazyTypes \cup {"telegram"}

\* Providers whose is_configured() looks for the model file.
FileBacked == {"llamacpp", "piper"}

\* Providers whose lazy initialiser sets the flag in its ImportError branch.
CachesImportFailure(type) == type \in {"anthropic", "openai", "ollama"}

\* The provider after __init__.  failed is a history field: a construction
\* of the backend has failed on this instance.
NewProvider(type, configured) ==
    [type |-> type, configured |-> configured, handle |-> FALSE,
     attempted |-> FALSE, failed |-> FALSE]

\* error_details of a provider result.
PErrNotConfigured == "provider is not properly configured"
PErrEmpty == "cannot be empty"
PErrDir == "Failed to create output directory"
PErrInit == "Failed to initialize"
PErrFile == "Audio file not found"
PErrBackend == "backend error"

\* What the environment does during one call: whether the library imports,
\* whether the backend constructor returns, whether the output directory can
\* be made, whether the audio file exists, whether the backend call succeeds.
ENVS == [importOk : BOOLEAN, ctorOk : BOOLEAN, dirOk : BOOLEAN,
         fileOk : BOOLEAN, callOk : BOOLEAN]

\* The record of a call on provider p: pre is the provider before it.
Call(p, op, blank, audio) ==
    [op |-> op, blank |-> blank, audio |-> audio, pre |-> p,
     status |-> NULL, error |-> NULL, importTried |-> FALSE,
     ctorCalled |-> FALSE, contacted |-> FALSE, raised |-> FALSE]

Fail(p, base, error) ==
    [prov |-> p, res |-> [base EXCEPT !.status = FAILED, !.error = error]]

\* The backend call (model, pipeline, client or HTTP request); every
\* exception of it is caught and turned into FAILED.
Request(p, base, env) ==
    [prov |-> p,
     res |-> [base EXCEPT !.contacted = TRUE,
                          !.status = IF env.callOk THEN SUCCESS ELSE FAILED,
                          !.error = IF env.callOk THEN NULL ELSE PErrBackend]]

\* _initialize_model / _initialize_pipeline / _initialize_voice /
\* _initialize_client.
LazyInit(p, importOk, ctorOk) ==
    IF p.attempted
    THEN [prov |-> p, ok |-> p.handle, importTried |-> FALSE,
          ctorCalled |-> FALSE]
    ELSE IF ~importOk
    THEN [prov |-> [p EXCEPT !.attempted = CachesImportFailure(p.type),
                             !.failed = TRUE],
          ok |-> FALSE, importTried |-> TRUE, ctorCalled |-> FALSE]
    ELSE IF ctorOk
    THEN [prov |-> [p EXCEPT !.handle = TRUE, !.attempted = TRUE],
          ok |-> TRUE, importTried |-> TRUE, ctorCalled |-> TRUE]
    ELSE [prov |-> [p EXCEPT !.attempted = TRUE, !.failed = TRUE],
          ok |-> FALSE, importTried |-> TRUE, ctorCalled |-> TRUE]

\* The primary action after its is_configured() check.
AfterConfigured(p, base, env) ==
    IF p.type = "telegram"
    THEN IF ~base.audio
         THEN IF base.blank THEN Fail(p, base, PErrEmpty)
              ELSE Request(p, base, env)
         ELSE IF ~env.fileOk THEN Fail(p, base, PErrFile)
              ELSE Request(p, base, env)
    ELSE IF base.blank THEN Fail(p, base, PErrEmpty)
    ELSE IF p.type \in TtsTypes /\ ~env.dirOk THEN Fail(p, base, PErrDir)
    ELSE LET li == LazyInit(p, env.importOk, env.ctorOk)
             b2 == [base EXCEPT !.importTried = li.importTried,
                                !.ctorCalled = li.ctorCalled]
         IN IF ~li.ok THEN Fail(li.prov, b2, PErrInit)
            ELSE Request(li.prov, b2, env)

PrimaryUnguarded(p, op, blank, audio, env) ==
    AfterConfigured(p, Call(p, op, blank, audio), env)

\* generate / generate_speech / send_message.
Primary(p, op, blank, audio, env) ==
    IF ~p.configured
    THEN Fail(p, Call(p, op, blank, audio), PErrNotConfigured)
    ELSE AfterConfigured(p, Call(p, op, blank, audio), env)

\* test_connection: the primary action on a fixed non-blank payload (the
\* Telegram provider requests getMe).
TestConnection(p, env) == Primary(p, "test_connection", FALSE, FALSE, env)

\* cleanup.
Cleanup(p) ==
    IF p.handle THEN [p EXCEPT !.handle = FALSE, !.attempted = FALSE] ELSE p

\* A provider instance after construction.
ProvInit ==
    /\ rows = <<>>
    /\ cache = [p \in PATHS |-> MISSING]
    /\ clock = 0
    /\ res = OpResult("init", NULL, TRUE, NoRow, NoCounts, NoArgs)
    /\ batch = Idle
    /\ mgr = NULL
    /\ providers = <<>>
    /\ meta = <<>>
    /\ live = <<>>
    /\ mres = NoDispatch
    /\ configs = <<>>
    /\ built = <<>>
    /\ \E type \in PROVIDER_TYPES, configured \in BOOLEAN :
          prov = NewProvider(type, configured)
    /\ pres = Call(prov, "none", FALSE, FALSE)
    /\ textdir = {}
    /\ procs = NULL
    /\ scrape = NULL
    /\ tg = NULL

CallPrimary(blank, audio, env) ==
    /\ audio => prov.type = "telegram"
    /\ LET r == Primary(prov, "primary", blank, audio, env)
       IN prov' = r.prov /\ pres' = r.res
    /\ UNCHANGED <<configs, built, storeVars, mgrVars, scrape, tg, procs>>

CallTestConnection(env) ==
    /\ LET r == TestConnection(prov, env)
       IN prov' = r.prov /\ pres' = r.res
    /\ UNCHANGED <<configs, built, storeVars, mgrVars, scrape, tg, procs>>

CallCleanup ==
    /\ prov.type \in LazyTypes
    /\ prov' = Cleanup(prov)
    /\ pres' = Call(prov, "cleanup", FALSE, FALSE)
    /\ UNCHANGED <<configs, built, storeVars, mgrVars, scrape, tg, procs>>

\* The model file of a file-backed provider appears or disappears.
ConfigFileChange ==
    /\ prov.type \in FileBacked
    /\ prov' = [prov EXCEPT !.configured = ~@]
    /\ pres' = Call(prov, "env", FALSE, FALSE)
    /\ UNCHANGED <<configs, built, storeVars, mgrVars, scrape, tg, procs>>

ProvNext ==
    \/ \E blank \in BOOLEAN, audio \in BOOLEAN, env \in ENVS :
          CallPrimary(blank, audio, env)
    \/ \E env \in ENVS : CallTestConnection(env)
    \/ CallCleanup
    \/ ConfigFileChange

ProvSpec == ProvInit /\ [][ProvNext]_vars

----------------------------------------------------------------------------
(* Properties of a provider instance, checked under ProvSpec *)

IsCall == pres.op \in {"primary", "test_connection"}

\* C12: a primary action called while is_configured() is false returns
\* FAILED, attempts no import and no backend construction, contacts no
\* backend, and leaves the backend handle and the attempted flag as they
\* were (unset and false on a provider that was never loaded).
C12_FailFastUnconfigured ==
    (pres.op = "primary" /\ ~pres.pre.configured)
    => /\ pres.status = FAILED
       /\ ~pres.importTried /\ ~pres.ctorCalled /\ ~pres.contacted
       /\ prov.handle = pres.pre.handle
       /\ prov.attempted = pres.pre.attempted

\* A lazily loaded provider that was never loaded got a non-blank payload
\* while not configured, and refused it.
C12_Witness ==
    /\ pres.op = "primary" /\ ~pres.pre.configured /\ ~pres.blank
    /\ pres.pre.type \in LazyTypes
    /\ ~pres.pre.attempted /\ ~pres.pre.handle
    /\ pres.error = PErrNotConfigured
    /\ ~prov.attempted /\ ~prov.handle

\* C13: a primary action of a configured provider called with a
\* whitespace-only payload, on any path of the action, returns FAILED with
\* the "empty" error and neither constructs nor contacts a backend.
C13_EmptyPayloadRejected ==
    (pres.op = "primary" /\ pres.blank /\ pres.pre.configured)
    => /\ pres.status = FAILED
       /\ pres.error = PErrEmpty
       /\ ~pres.importTried /\ ~pres.ctorCalled /\ ~pres.contacted

\* C14: once a backend construction has failed on an instance (the import
\* or the constructor), every later primary action and test_connection on
\* it returns FAILED and attempts neither the import nor the constructor.
C14_FailedConstructionNotRetried ==
    (IsCall /\ pres.pre.failed)
    => /\ pres.status = FAILED
       /\ ~pres.importTried /\ ~pres.ctorCalled

\* C15: cleanup() raises nothing; after it the provider holds no backend
\* handle and is in the not-yet-attempted state, whatever the state it was
\* called in, and a second cleanup() changes nothing.
C15_CleanupResets ==
    pres.op = "cleanup"
    => /\ ~pres.raised
       /\ ~prov.handle
       /\ ~prov.attempted
       /\ Cleanup(prov) = prov

----------------------------------------------------------------------------
(* The cache manager on its own: one save_transcript call on a cache       *)
(* directory that is empty or holds one file of an earlier save.           *)

\* Longest short title drawn; one title longer than FilenameLimit is drawn
\* as well.
MaxTitle == 2

CACHE_TITLES ==
    UNION {[1..n -> {"a", " ", "/"}] : n \in 0..MaxTitle}
    \cup {[i \in 1..(FilenameLimit + 1) |-> "a"]}
CACHE_FOLDERS == {"d1", "d2"}
CACHE_IDS == {<<"v", "1">>}
CachePaths ==
    {GetCachePath(f, i, t) :
        f \in CACHE_FOLDERS, i \in CACHE_IDS, t \in CACHE_TITLES}

NoCacheCall ==
    [op |-> "none", transcript_data |-> NULL, channel_cache_folder |-> NULL,
     video_id |-> <<>>, title |-> <<>>, path |-> NULL]

CacheInit ==
    /\ rows = <<>>
    /\ \E held \in SUBSET CachePaths :
          /\ Cardinality(held) <= 1
          /\ cache = [p \in CachePaths |-> IF p \in held THEN "old" ELSE MISSING]
    /\ clock = 0
    /\ res = NoCacheCall
    /\ batch = Idle
    /\ mgr = NULL
    /\ providers = <<>>
    /\ meta = <<>>
    /\ live = <<>>
    /\ mres = NULL
    /\ configs = <<>>
    /\ built = <<>>
    /\ prov = NULL
    /\ pres = NULL
    /\ textdir = {}
    /\ procs = NULL
    /\ scrape = NULL
    /\ tg = NULL

\* save_transcript(transcript_data, channel_cache_folder, video_id, title).
CallSaveTranscript(transcript_data, channel_cache_folder, video_id, title, writeOk) ==
    LET r == SaveTranscript(cache, transcript_data, channel_cache_folder,
                            video_id, title, writeOk) IN
    /\ res.op = "none"
    /\ cache' = r.cache
    /\ res' = [op |-> "save_transcript", transcript_data |-> transcript_data,
               channel_cache_folder |-> channel_cache_folder,
               video_id |-> video_id, title |-> title, path |-> r.path]
    /\ UNCHANGED <<rows, clock, batch, textdir, mgrVars, provVars, scrape, tg, procs>>

CacheNext ==
    \E t \in TEXTS, f \in CACHE_FOLDERS, i \in CACHE_IDS, title \in CACHE_TITLES,
       writeOk \in BOOLEAN : CallSaveTranscript(t, f, i, title, writeOk)

CacheSpec == CacheInit /\ [][CacheNext]_vars

----------------------------------------------------------------------------
(* Properties of the cache manager, checked under CacheSpec *)

Saved == res.op = "save_transcript" /\ res.path # NULL

\* After a successful save, transcript_exists is true for the same
\* arguments and load_transcript and load_transcript_by_path(returned path)
\* return the transcript that was saved.
SaveRoundTrip ==
    /\ TranscriptExists(cache, res.channel_cache_folder, res.video_id, res.title)
    /\ LoadTranscript(cache, res.channel_cache_folder, res.video_id, res.title)
       = res.transcript_data
    /\ LoadTranscriptByPath(cache, res.path) = res.transcript_data

----------------------------------------------------------------------------
(* The Telegram provider's request loops:                                  *)
(* infrastructure/notifications/providers/telegram.py                      *)

\* Largest retry_attempts drawn.
MaxRetry == 3

MAKE_REQUEST == "_make_request"
SEND_AUDIO == "_send_audio_file"

\* What one pass of the loop body can meet: the open() of the audio file
\* raising, or requests.post returning a body with ok true, a body with ok
\* false, a body that is not JSON, or raising Timeout, ConnectionError or
\* another exception.
OPEN_ERROR == "open_error"
TRANSIENT == {"timeout", "connection_error"}
AttemptOutcomes(method) ==
    {"ok", "api_error", "bad_json", "unexpected"} \cup TRANSIENT
    \cup (IF method = SEND_AUDIO THEN {OPEN_ERROR} ELSE {})

\* The checks of _send_audio_file ahead of its loop.
PRECHECKS == {"pass", "not_configured", "no_file", "too_large"}


NoTgResult == [status |-> NULL, error_details |-> NULL]
TgFailed(error_details) == [status |-> FAILED, error_details |-> error_details]

\* A call in progress: the loop variable, the HTTP requests issued so far,
\* what each pass met, and the result once the call has returned.
TgCall(method, retry_attempts, pc) ==
    [method |-> method, retry_attempts |-> retry_attempts, pc |-> pc,
     attempt |-> 0, requests |-> 0, met |-> <<>>, result |-> NoTgResult]

TgInit ==
    /\ tg \in {TgCall(MAKE_REQUEST, n, "loop") : n \in 0..MaxRetry}
              \cup {TgCall(SEND_AUDIO, n, "check") : n \in 0..MaxRetry}
    /\ rows = <<>>
    /\ cache = [p \in PATHS |-> MISSING]
    /\ clock = 0
    /\ res = NULL
    /\ batch = Idle
    /\ mgr = NULL
    /\ providers = <<>>
    /\ meta = <<>>
    /\ live = <<>>
    /\ mres = NULL
    /\ configs = <<>>
    /\ built = <<>>
    /\ prov = NULL
    /\ pres = NULL
    /\ textdir = {}
    /\ procs = NULL
    /\ scrape = NULL

\* Faulty variant: the loop runs one pass more than retry_attempts.
LoopRunsOnceMore(t) == t.attempt <= t.retry_attempts

\* for attempt in range(self.retry_attempts)
LoopRuns(t) == t.attempt < t.retry_attempts

\* What a pass that met the outcome returns, or NoTgResult when the loop
\* goes on to the next pass.
PassResult(t, outcome) ==
    LET last == t.attempt = t.retry_attempts - 1
        retried ==
            TRANSIENT \cup (IF t.method = SEND_AUDIO
                            THEN {"bad_json", "api_error"} ELSE {})
        error_details ==
            CASE outcome = "timeout" -> "Request timeout after all retry attempts"
              [] outcome = "connection_error" -> "Connection error after all retry attempts"
              [] outcome = "bad_json" -> "Invalid JSON response from Telegram API"
              [] outcome = "api_error" -> "description"
              [] OTHER -> "Unexpected error"
    IN IF outcome = "ok" THEN [status |-> SUCCESS, error_details |-> NULL]
       ELSE IF outcome \in retried /\ ~last THEN NoTgResult
       ELSE TgFailed(error_details)

\* The checks of _send_audio_file before its loop.
TgPrecheck(outcome) ==
    /\ tg.pc = "check"
    /\ tg' = IF outcome = "pass" THEN [tg EXCEPT !.pc = "loop"]
             ELSE [tg EXCEPT !.pc = "done",
                      !.result = TgFailed(CASE outcome = "not_configured" -> "Telegram provider is not properly configured"
                                            [] outcome = "no_file" -> "Audio file not found"
                                            [] OTHER -> "File too large")]
    /\ UNCHANGED <<storeVars, mgrVars, provVars, scrape, procs>>

\* One pass of the loop body.
TgAttempt(outcome) ==
    /\ tg.pc = "loop"
    /\ LoopRuns(tg)
    /\ outcome \in AttemptOutcomes(tg.method)
    /\ LET r == PassResult(tg, outcome) IN
       tg' = [tg EXCEPT
                !.requests = IF outcome = OPEN_ERROR THEN @ ELSE @ + 1,
                !.met = Append(@, outcome),
                !.attempt = IF r = NoTgResult THEN @ + 1 ELSE @,
                !.pc = IF r = NoTgResult THEN "loop" ELSE "done",
                !.result = r]
    /\ UNCHANGED <<storeVars, mgrVars, provVars, scrape, procs>>

\* The return after the loop.
TgExhausted ==
    /\ tg.pc = "loop"
    /\ ~LoopRuns(tg)
    /\ tg' = [tg EXCEPT !.pc = "done", !.result = TgFailed("All retry attempts failed")]
    /\ UNCHANGED <<storeVars, mgrVars, provVars, scrape, procs>>

TgNext ==
    \/ \E outcome \in PRECHECKS : TgPrecheck(outcome)
    \/ \E outcome \in AttemptOutcomes(SEND_AUDIO) : TgAttempt(outcome)
    \/ TgExhausted

\* requests.post is given a timeout and the loop has no other wait, so a
\* call that can take a step does take it.
TgSpec == TgInit /\ [][TgNext]_vars /\ WF_vars(TgNext)

----------------------------------------------------------------------------
(* Properties of the Telegram request loops, checked under TgSpec *)

\* The call has returned, and over the whole call: no more than
\* retry_attempts requests were issued, every pass that met a transient
\* error before the last one was followed by another pass, and a call whose
\* retry_attempts passes (none, for retry_attempts = 0) all met transient
\* errors returned FAILED.
TgReturnedWithinContract ==
    /\ tg.pc = "done"
    /\ tg.result.status \in {SUCCESS, FAILED}
    /\ tg.requests <= tg.retry_attempts
    /\ Len(tg.met) <= tg.retry_attempts
    /\ \A i \in 1..Len(tg.met) :
          (tg.met[i] \in TRANSIENT /\ i < tg.retry_attempts) => Len(tg.met) > i
    /\ ((/\ Len(tg.met) = tg.retry_attempts
         /\ \A i \in 1..Len(tg.met) : tg.met[i] \in TRANSIENT)
            => tg.result.status = FAILED)

\* C28: every Telegram request, for every retry_attempts >= 0, returns a
\* result after at most retry_attempts HTTP requests; a transient error
\* (timeout, connection error) before the last attempt is followed by
\* another attempt, and retry_attempts transient errors in a row give
\* FAILED.
C28_RetryBoundedAndTerminates == <>TgReturnedWithinContract

\* A call with retry_attempts = MaxRetry whose every attempt timed out or
\* lost the connection has returned FAILED after MaxRetry requests.
C28_Witness ==
    /\ tg.pc = "done"
    /\ tg.retry_attempts = MaxRetry
    /\ tg.requests = MaxRetry
    /\ \A i \in 1..Len(tg.met) : tg.met[i] \in TRANSIENT
    /\ tg.result.status = FAILED

----------------------------------------------------------------------------
(* The channel scrape: core/youtube/channel_manager.py                     *)

\* Store writes in one behaviour of a scrape.
MaxScrapeWrites == 3

\* self._channels: the active channels in configuration order, each with
\* its cache_folder.
SCRAPE_CHANNELS == <<"c1", "c2", "c3">>
CacheFolder(channel) ==
    CASE channel = "c1" -> "f1" [] channel = "c2" -> "f2" [] OTHER -> "f3"

\* An entry of get_latest_videos: the url is built from the id.
Video(id, title) == [id |-> id, url |-> "u" \o Join(id), title |-> title]

\* What the video-listing call can return for each channel.  The first
\* video of c1 is listed under either of two titles.
Listings(channel) ==
    CASE channel = "c1" ->
            {<<>>, <<Video(<<"2">>, <<"a">>), Video(<<"1">>, <<"a">>)>>}
            \cup {<<Video(<<"1">>, title)>> : title \in {<<"a">>, <<"b">>}}
            \cup {<<Video(<<"1">>, title), Video(<<"2">>, <<"a">>)>> :
                     title \in {<<"a">>, <<"b">>}}
      [] channel = "c2" -> {<<>>, <<Video(<<"3">>, <<"a">>)>>}
      [] OTHER -> {<<>>, <<Video(<<"4">>, <<"a">>)>>}
AllListings ==
    UNION {Listings(SCRAPE_CHANNELS[i]) : i \in 1..Len(SCRAPE_CHANNELS)}
\* The call raises, or returns a list.
ListingOutcomes ==
    {[raised |-> TRUE, videos |-> <<>>]}
    \cup {[raised |-> FALSE, videos |-> l] : l \in AllListings}

ScrapePaths ==
    UNION {{GetCachePath(CacheFolder(SCRAPE_CHANNELS[i]), l[j].id, l[j].title) :
               j \in 1..Len(l)} :
           <<i, l>> \in {<<k, m>> \in (1..Len(SCRAPE_CHANNELS)) \X AllListings :
                            m \in Listings(SCRAPE_CHANNELS[k])}}

\* What get_video_transcript can do: raise, return None, return an
\* error-tagged object whose text is None, or return a transcript.
FETCH_RAISES == "raises"
FETCH_NONE == "none"
FETCH_NO_TEXT == "no_text"
FETCH_OK == "ok"
NOT_FETCHED == "not_fetched"
FetchedText == CHOOSE x \in TEXTS : TRUE

\* What the environment of one _process_video call does: the fetch, then
\* whether the cache write and the store write go through.  A later step is
\* drawn only when the call reaches it.
VideoOutcomes ==
    {[fetch |-> f, cacheOk |-> TRUE, dbOk |-> TRUE] : f \in {FETCH_RAISES, FETCH_NONE}}
    \cup {[fetch |-> FETCH_NO_TEXT, cacheOk |-> TRUE, dbOk |-> d] : d \in BOOLEAN}
    \cup {[fetch |-> FETCH_OK, cacheOk |-> FALSE, dbOk |-> TRUE]}
    \cup {[fetch |-> FETCH_OK, cacheOk |-> TRUE, dbOk |-> d] : d \in BOOLEAN}
NoFetchOutcome == [fetch |-> NOT_FETCHED, cacheOk |-> TRUE, dbOk |-> TRUE]


\* video_result of _process_video, with what the call saw and did: the row
\* it read, whether the file of that row's transcript_path was there,
\* whether it was a forced run, what the fetch did (if called) and whether
\* the cache and the store accepted a write.
VideoResult(video, status, transcript_path, error, pre, c, force_refresh, o) ==
    [video_id |-> video.id, title |-> video.title, url |-> video.url,
     status |-> status, transcript_path |-> transcript_path, error |-> error,
     pre |-> pre,
     pre_file |-> pre.transcript_path # NULL
                  /\ LoadTranscriptByPath(c, pre.transcript_path) # NULL,
     force_refresh |-> force_refresh, fetch |-> o.fetch,
     cache_ok |-> o.cacheOk, db_ok |-> o.dbOk]

VideoData(video, channel) ==
    [url |-> video.url, title |-> Join(video.title), channel_url |-> channel]

\* The "already in database and cache" test of _process_video.
IsCached(t, c, video, channel, force_refresh) ==
    LET existing_video == GetVideoByUrl(t, video.url) IN
    /\ ~force_refresh
    /\ existing_video # NoRow
    /\ existing_video.transcript_path # NULL
    /\ TranscriptExists(c, CacheFolder(channel), video.id, video.title)

\* _process_video: the table and the cache after the call, and video_result.
\* On a transcript_data that is None, transcript_data.get('metadata', {})
\* raises AttributeError, which the handler at the end turns into "error".
ProcessVideo(t, c, now, video, channel, force_refresh, o) ==
    LET pre == GetVideoByUrl(t, video.url)
        vr(status, transcript_path, error, env) ==
            VideoResult(video, status, transcript_path, error, pre, c,
                        force_refresh, env)
        saved == SaveTranscript(c, FetchedText, CacheFolder(channel),
                                video.id, video.title, o.cacheOk)
        data == VideoData(video, channel)
    IN
    IF IsCached(t, c, video, channel, force_refresh)
    THEN [rows |-> t, cache |-> c,
          vr |-> vr("cached", pre.transcript_path, NULL, NoFetchOutcome)]
    ELSE IF o.fetch \in {FETCH_RAISES, FETCH_NONE}
    THEN [rows |-> t, cache |-> c, vr |-> vr("error", NULL, "Error processing video", o)]
    ELSE IF o.fetch = FETCH_NO_TEXT
    THEN [rows |-> IF o.dbOk THEN SaveVideoRows(t, data, NULL, now) ELSE t,
          cache |-> c,
          vr |-> vr("no_transcript", NULL, "No transcripts available", o)]
    ELSE IF saved.path = NULL
    THEN [rows |-> t, cache |-> c,
          vr |-> vr("error", NULL, "Failed to save transcript to cache", o)]
    ELSE IF ~o.dbOk
    THEN [rows |-> t, cache |-> saved.cache,
          vr |-> vr("error", NULL, "Failed to save to database", o)]
    ELSE [rows |-> SaveVideoRows(t, data, saved.path, now),
          cache |-> saved.cache,
          vr |-> vr("new_transcript", saved.path, NULL, o)]

\* results of process_channel at its start, with what the video-listing
\* call did: the list it returned, or that it raised.
NewChannelResults(channel) ==
    [channel_url |-> channel, videos_found |-> 0, new_transcripts |-> 0,
     cached_transcripts |-> 0, errors |-> <<>>, processed_videos |-> <<>>,
     listed |-> <<>>, listing_raised |-> FALSE]

\* The body of the "for video in videos" loop after _process_video.
AddVideoResult(results, video_result) ==
    [results EXCEPT
        !.processed_videos = Append(@, video_result),
        !.new_transcripts =
            IF video_result.status = "new_transcript" THEN @ + 1 ELSE @,
        !.cached_transcripts =
            IF video_result.status = "cached" THEN @ + 1 ELSE @,
        !.errors =
            IF video_result.status = "error"
            THEN Append(@, video_result.error) ELSE @]

NewOverallResults ==
    [total_channels |-> 0, processed_channels |-> 0, total_videos_found |-> 0,
     total_new_transcripts |-> 0, total_cached_transcripts |-> 0,
     total_errors |-> 0, channel_results |-> <<>>]

\* Faulty variant: the errors of a channel are counted as one at most.
AddChannelResultOneError(overall, channel_result) ==
    [overall EXCEPT
        !.channel_results = Append(@, channel_result),
        !.processed_channels = @ + 1,
        !.total_videos_found = @ + channel_result.videos_found,
        !.total_new_transcripts = @ + channel_result.new_transcripts,
        !.total_cached_transcripts = @ + channel_result.cached_transcripts,
        !.total_errors = @ + (IF channel_result.errors = <<>> THEN 0 ELSE 1)]

\* The body of the "for channel in self._channels" loop after
\* process_channel has returned.
AddChannelResult(overall, channel_result) ==
    [overall EXCEPT
        !.channel_results = Append(@, channel_result),
        !.processed_channels = @ + 1,
        !.total_videos_found = @ + channel_result.videos_found,
        !.total_new_transcripts = @ + channel_result.new_transcripts,
        !.total_cached_transcripts = @ + channel_result.cached_transcripts,
        !.total_errors = @ + Len(channel_result.errors)]

PROCESS_ALL == "process_all_channels"
PROCESS_ONE == "process_channel"

\* No scrape running.  After a run, results and overall keep what the run
\* returned until the next one starts.
ScrapeIdle ==
    [pc |-> "idle", kind |-> PROCESS_ONE, force_refresh |-> FALSE,
     chans |-> <<>>, queue |-> <<>>,
     results |-> NewChannelResults(NULL), overall |-> NewOverallResults]

ScrapeInit ==
    /\ rows = <<>>
    /\ cache = [p \in ScrapePaths |-> MISSING]
    /\ clock = 0
    /\ scrape = ScrapeIdle
    /\ res = NULL
    /\ batch = Idle
    /\ mgr = NULL
    /\ providers = <<>>
    /\ meta = <<>>
    /\ live = <<>>
    /\ mres = NULL
    /\ configs = <<>>
    /\ built = <<>>
    /\ prov = NULL
    /\ pres = NULL
    /\ textdir = {}
    /\ procs = NULL
    /\ tg = NULL

\* process_all_channels(force_refresh) is called.
ScrProcessAll(force_refresh) ==
    /\ scrape.pc = "idle"
    /\ scrape.kind = PROCESS_ONE
    /\ scrape' = [ScrapeIdle EXCEPT
                    !.pc = "list", !.kind = PROCESS_ALL,
                    !.force_refresh = force_refresh,
                    !.chans = SCRAPE_CHANNELS,
                    !.results = NewChannelResults(Head(SCRAPE_CHANNELS)),
                    !.overall.total_channels = Len(SCRAPE_CHANNELS)]
    /\ UNCHANGED <<rows, cache, clock, res, batch, textdir, mgrVars, provVars, tg, procs>>

\* process_channel(channel, force_refresh) is called on its own
\* (YouTubeService.scrape_channel).
ScrProcessChannel(channel, force_refresh) ==
    /\ scrape.pc = "idle"
    /\ scrape' = [ScrapeIdle EXCEPT
                    !.pc = "list", !.kind = PROCESS_ONE,
                    !.force_refresh = force_refresh,
                    !.chans = <<channel>>,
                    !.results = NewChannelResults(channel)]
    /\ UNCHANGED <<rows, cache, clock, res, batch, textdir, mgrVars, provVars, tg, procs>>

\* process_channel returns results: the caller's loop takes them and goes
\* on to the next channel, or the run returns.
ChannelReturns(s, results) ==
    LET rest == Tail(s.chans) IN
    [s EXCEPT
        !.overall = IF s.kind = PROCESS_ALL THEN AddChannelResult(@, results)
                    ELSE @,
        !.chans = rest,
        !.queue = <<>>,
        !.results = IF rest = <<>> THEN results
                    ELSE NewChannelResults(Head(rest)),
        !.pc = IF rest = <<>> THEN "idle" ELSE "list"]

\* process_channel up to its loop: the video-listing call raises (caught,
\* one entry in errors) or returns a list; an empty list returns at once.
ScrList(listing) ==
    /\ scrape.pc = "list"
    /\ listing.raised \/ listing.videos \in Listings(Head(scrape.chans))
    /\ scrape' =
        IF listing.raised
        THEN ChannelReturns(scrape, [scrape.results EXCEPT
                                        !.listing_raised = TRUE,
                                        !.errors = Append(@, "Error processing channel")])
        ELSE IF listing.videos = <<>>
        THEN ChannelReturns(scrape, scrape.results)
        ELSE [scrape EXCEPT !.pc = "videos", !.queue = listing.videos,
                            !.results.listed = listing.videos,
                            !.results.videos_found = Len(listing.videos)]
    /\ UNCHANGED <<rows, cache, clock, res, batch, textdir, mgrVars, provVars, tg, procs>>

\* Faulty variant: the loop takes the last video of the list first.
NextVideoLast(queue) == queue[Len(queue)]

\* for video in videos: the video of this pass
NextVideo(queue) == Head(queue)

\* One pass of the loop of process_channel: _process_video on the next
\* video and the bookkeeping after it; after the last video the channel
\* returns.
ScrVideo(o) ==
    LET video == NextVideo(scrape.queue)
        channel == Head(scrape.chans)
        r == ProcessVideo(rows, cache, clock + 1, video, channel,
                          scrape.force_refresh, o)
        results == AddVideoResult(scrape.results, r.vr)
        rest == Tail(scrape.queue)
    IN
    /\ scrape.pc = "videos"
    /\ r.rows = rows \/ clock < MaxScrapeWrites
    /\ o = NoFetchOutcome
         <=> IsCached(rows, cache, video, channel, scrape.force_refresh)
    /\ rows' = r.rows
    /\ cache' = r.cache
    /\ clock' = IF r.rows = rows THEN clock ELSE clock + 1
    /\ scrape' = IF rest = <<>> THEN ChannelReturns(scrape, results)
                 ELSE [scrape EXCEPT !.queue = rest, !.results = results]
    /\ UNCHANGED <<res, batch, textdir, mgrVars, provVars, tg, procs>>

\* A cache file is deleted from outside between two runs.
ScrCacheDelete(path) ==
    /\ scrape.pc = "idle"
    /\ cache[path] # MISSING
    /\ cache' = [cache EXCEPT ![path] = MISSING]
    /\ UNCHANGED <<rows, clock, res, batch, textdir, mgrVars, provVars, scrape, tg, procs>>

\* Runs of process_channel on the first channel, one after the other, with
\* cache files deleted in between.
ScrapeNext ==
    \/ \E channel \in {Head(SCRAPE_CHANNELS)}, force_refresh \in BOOLEAN :
          ScrProcessChannel(channel, force_refresh)
    \/ \E listing \in ListingOutcomes : ScrList(listing)
    \/ \E o \in VideoOutcomes \cup {NoFetchOutcome} : ScrVideo(o)
    \/ \E path \in ScrapePaths : ScrCacheDelete(path)

ScrapeSpec == ScrapeInit /\ [][ScrapeNext]_vars

\* One run of process_all_channels over the three channels.
BatchNext ==
    \/ \E force_refresh \in BOOLEAN : ScrProcessAll(force_refresh)
    \/ \E listing \in ListingOutcomes : ScrList(listing)
    \/ \E o \in VideoOutcomes \cup {NoFetchOutcome} : ScrVideo(o)

BatchSpec == ScrapeInit /\ [][BatchNext]_vars

----------------------------------------------------------------------------
(* Properties of the channel scrape, checked under ScrapeSpec *)

\* The video results of the channel run in progress or last returned.
Processed == Range(scrape.results.processed_videos)
Fetched(vr) == vr.fetch # NOT_FETCHED

\* C22: without force_refresh a video is "cached", and its transcript not
\* fetched, only if the store has a row for its url with a transcript_path
\* and the file at that transcript_path exists; if that file is gone, or
\* with force_refresh, the transcript is fetched again.
C22_CachedOnlyIfRowFileExists ==
    \A vr \in Processed :
        /\ (vr.status = "cached" \/ ~Fetched(vr)) =>
              /\ ~vr.force_refresh
              /\ vr.pre # NoRow
              /\ vr.pre.transcript_path # NULL
              /\ vr.pre_file
              /\ vr.status = "cached" /\ ~Fetched(vr)
        /\ (vr.force_refresh \/ (vr.pre.transcript_path # NULL /\ ~vr.pre_file))
              => Fetched(vr)

\* The fetch of the video yielded no transcript: nothing at all, or an
\* error-tagged object without text.
NoTranscriptFetched(vr) == vr.fetch \in {FETCH_NONE, FETCH_NO_TEXT}

\* C23: whenever the fetch yields no transcript (nothing at all, or an
\* error-tagged object without text) and the store accepts the write, the
\* video is reported "no_transcript", a row for its url is persisted, and
\* the channel's errors hold only the errors of the other videos.
C23_NoTranscriptIsRecordedNotAnError ==
    LET pv == scrape.results.processed_videos IN
    /\ \A vr \in Processed :
          (NoTranscriptFetched(vr) /\ vr.db_ok) =>
              /\ vr.status = "no_transcript"
              /\ GetVideoByUrl(rows, vr.url) # NoRow
    /\ Len(scrape.results.errors)
       = Cardinality({k \in DOMAIN pv :
                        ~NoTranscriptFetched(pv[k]) /\ pv[k].status = "error"})
         + (IF scrape.results.listing_raised THEN 1 ELSE 0)

\* C24: once a video has a row recorded without a transcript (status
\* "no_transcript"), a later run without force_refresh does not call the
\* transcript fetch for it.
C24_NoRefetchAfterNoTranscript ==
    \A vr \in Processed :
        (~vr.force_refresh /\ vr.pre # NoRow /\ vr.pre.transcript_path = NULL)
            => ~Fetched(vr)

\* An exception was raised while fetching, caching or saving the video.
RaisedInVideo(vr) ==
    \/ vr.fetch = FETCH_RAISES
    \/ vr.fetch = FETCH_OK /\ ~vr.cache_ok
    \/ vr.fetch \in {FETCH_OK, FETCH_NO_TEXT} /\ ~vr.db_ok

\* C25: an exception raised while fetching, caching or saving one video is
\* reported as that video's status "error" and its error is in the
\* channel's errors; every video of the list is processed (one result per
\* listed video once the run has returned), and videos_found is the number
\* of listed videos.
C25_VideoErrorsCapturedBatchGoesOn ==
    LET r == scrape.results IN
    /\ \A vr \in Processed :
          RaisedInVideo(vr) =>
              vr.status = "error" /\ vr.error \in Range(r.errors)
    /\ r.videos_found = Len(r.listed)
    /\ Len(r.processed_videos) + Len(scrape.queue) = Len(r.listed)
    /\ scrape.pc = "idle" => Len(r.processed_videos) = Len(r.listed)

----------------------------------------------------------------------------
(* Properties of process_all_channels, checked under BatchSpec *)

BatchReturned == scrape.kind = PROCESS_ALL /\ scrape.pc = "idle"
PerVideoErrors(channel_result) ==
    Cardinality({k \in DOMAIN channel_result.processed_videos :
                    channel_result.processed_videos[k].status = "error"})

\* The second of the three channels raised in its video-listing call and
\* the listing calls of the other two returned.
OnlySecondListingRaised(cr) ==
    /\ cr[2].listing_raised
    /\ ~cr[1].listing_raised
    /\ ~cr[3].listing_raised

\* C26: when, of channels [1, 2, 3], the video-listing call of channel 2
\* raises, the run still returns the results of channels 1 and 3 with every
\* listed video processed, and total_errors is the per-video errors of
\* channels 1 and 3 plus exactly one.
C26_ListingFailureIsolated ==
    LET o == scrape.overall
        cr == o.channel_results
    IN (BatchReturned /\ Len(cr) >= 2 /\ cr[2].listing_raised) =>
        /\ Len(cr) = Len(SCRAPE_CHANNELS)
        /\ o.processed_channels = Len(SCRAPE_CHANNELS)
        /\ \A i \in {1, 3} :
              /\ cr[i].channel_url = SCRAPE_CHANNELS[i]
              /\ ~cr[i].listing_raised =>
                    /\ Len(cr[i].processed_videos) = Len(cr[i].listed)
                    /\ cr[i].videos_found = Len(cr[i].listed)
        /\ cr[2].processed_videos = <<>>
        /\ OnlySecondListingRaised(cr) =>
              /\ o.total_errors = PerVideoErrors(cr[1]) + PerVideoErrors(cr[3]) + 1
              /\ o.total_videos_found = cr[1].videos_found + cr[3].videos_found
              /\ o.total_new_transcripts
                 = cr[1].new_transcripts + cr[3].new_transcripts

\* A returned run in which only channel 2's listing raised, two videos of
\* channel 1 ended in error and channel 3 stored a new transcript.
C26_Witness ==
    LET cr == scrape.overall.channel_results IN
    /\ BatchReturned
    /\ Len(cr) = 3
    /\ OnlySecondListingRaised(cr)
    /\ PerVideoErrors(cr[1]) = 2
    /\ cr[3].new_transcripts = 1
    /\ scrape.overall.total_errors = 3

\* The videos processed so far in the channel are the first of the list
\* the listing call returned, in its order, and the rest of the list is
\* what is still to do.
InListingOrder(s) ==
    LET r == s.results
        n == Len(r.processed_videos)
    IN /\ n + Len(s.queue) = Len(r.listed)
       /\ \A k \in 1..n :
             /\ r.processed_videos[k].url = r.listed[k].url
             /\ r.processed_videos[k].title = r.listed[k].title
       /\ \A k \in 1..Len(s.queue) : s.queue[k] = r.listed[n + k]

\* The channels done so far are the first of the configuration, in its
\* order, and the channel in progress is the next one.
InConfigOrder(s) ==
    LET cr == s.overall.channel_results IN
    /\ Len(cr) + Len(s.chans) = Len(SCRAPE_CHANNELS)
    /\ \A i \in 1..Len(cr) : cr[i].channel_url = SCRAPE_CHANNELS[i]
    /\ \A i \in 1..Len(s.chans) : s.chans[i] = SCRAPE_CHANNELS[Len(cr) + i]
    /\ s.pc # "idle" => s.results.channel_url = SCRAPE_CHANNELS[Len(cr) + 1]

\* The step worked on one video at most: if the table or the cache changed,
\* the change is the row and the cache file of the one video whose result
\* the step added, and the video before it already had its result.
OneVideoAtATime ==
    LET before == scrape.results.processed_videos
        after == IF scrape'.pc = "videos" \/ scrape'.kind # PROCESS_ALL
                    \/ scrape.chans = <<>>
                 THEN scrape'.results.processed_videos
                 ELSE scrape'.overall.channel_results[
                          Len(scrape'.overall.channel_results)].processed_videos
    IN (rows' # rows \/ cache' # cache) =>
        /\ scrape.pc = "videos"
        /\ Len(after) = Len(before) + 1
        /\ LET vr == after[Len(after)] IN
           /\ vr.url = Head(scrape.queue).url
           /\ \A i \in 1..Len(rows) : rows'[i].url # vr.url => rows'[i] = rows[i]
           /\ Len(rows') <= Len(rows) + 1
           /\ Len(rows') > Len(rows) => rows'[Len(rows')].url = vr.url
           /\ \A p \in DOMAIN cache :
                 cache'[p] # cache[p]
                     => p = GetCachePath(CacheFolder(Head(scrape.chans)),
                                         vr.video_id, vr.title)

\* C27: within a channel the videos are processed in the order the
\* video-listing call returned them, one finishing before the next begins;
\* the channels of a batch are processed in configuration order; a step
\* never works on two videos.
C27_SequentialInOrder ==
    [][/\ scrape'.kind = PROCESS_ALL => InListingOrder(scrape') /\ InConfigOrder(scrape')
       /\ OneVideoAtATime]_vars

\* The second video of a two-video list of the first channel has just been
\* processed after the first, and the second channel is next.
C27_Witness ==
    /\ scrape.kind = PROCESS_ALL
    /\ scrape.pc = "list"
    /\ Len(scrape.overall.channel_results) = 1
    /\ Len(scrape.overall.channel_results[1].processed_videos) = 2
    /\ scrape.overall.channel_results[1].processed_videos[1].url = "u2"
    /\ scrape.overall.channel_results[1].processed_videos[2].url = "u1"
    /\ Head(scrape.chans) = "c2"

----------------------------------------------------------------------------
(* Further properties of the store, the pipeline and the batch drivers,    *)
(* checked under Spec                                                      *)

\* The pipeline runs made so far by the batch call in progress.
RunsOfCall == batch.processed + batch.failed + batch.skipped

\* C31: a process_channel_summaries call with limit = L runs the
\* single-video pipeline on at most L videos, whatever the number of
\* channels it processes.
C31_LimitBoundsRunsOfCall ==
    batch.kind = "channels" => RunsOfCall <= batch.limit


\* The step pulls the videos of the next channel of a forced call without
\* a limit.
ForcedPull ==
    /\ batch.kind = "channels" /\ batch'.kind = "channels"
    /\ batch'.chans # batch.chans
    /\ batch.force
    /\ batch.limit = NoLimit

\* C32: a process_channel_summaries call with force = true runs the
\* pipeline again on the videos of its channels that are already
\* summary_processed: when it pulls a channel's videos, every processed row
\* of that channel that has a transcript is among them.
C32_ForceRerunsProcessed ==
    [][ForcedPull =>
          \A i \in 1..Len(rows) :
              (/\ rows[i].channel_url = batch'.chan
               /\ rows[i].summary_processed
               /\ rows[i].transcript_path # NULL)
                  => rows[i].url \in Range(batch'.queue)]_vars


\* C33: a row that has a transcript_path keeps one through every step of a
\* channel scrape (forced or not, whatever the fetch yields): the column is
\* never set back to NULL.
C33_TranscriptPathNeverCleared ==
    [][\A i \in 1..Len(rows) :
          rows[i].transcript_path # NULL => rows'[i].transcript_path # NULL]_vars


\* A step that is a save_video call on a url that has a row.
SaveOnExistingRow ==
    /\ batch.kind = "idle"
    /\ clock' = clock + 1
    /\ res'.op = "save_video"
    /\ GetVideoByUrl(rows, res'.url) # NoRow

SummaryColumns(row) ==
    <<row.summary_processed, row.summary_text, row.summary_audio_path,
      row.summary_processed_at, row.summary_error>>

\* C34: save_video on a url that already has a row leaves that row's
\* summary_processed, summary_text, summary_audio_path, summary_processed_at
\* and summary_error as they were, and leaves every other row as it was.
C34_SaveVideoFrame ==
    [][SaveOnExistingRow =>
          /\ Len(rows') = Len(rows)
          /\ \A i \in 1..Len(rows) :
                IF rows[i].url = res'.url
                THEN SummaryColumns(rows'[i]) = SummaryColumns(rows[i])
                ELSE rows'[i] = rows[i]]_vars

\* C34 witness: save_video has rewritten the row of a summarized video.
C34_Witness ==
    /\ res.op = "save_video"
    /\ res.pre # NoRow
    /\ res.pre.summary_processed
    /\ res.pre.summary_text # NULL
    /\ Row(res.url).updated_at > res.pre.updated_at


\* A step that is a run of process_video_summary returning before the LLM
\* stage.
EarlyFailure ==
    /\ res' # res
    /\ res'.op = "process_video_summary"
    /\ res'.error \in {ErrNotFound, ErrNoTranscript, ErrLoad}

\* The rows get_unsummarized_videos returns when nothing limits it.
Unsummarized(t) == Range(Urls(GetUnsummarizedVideos(t, NULL, NoLimit)))

\* Such a run writes nothing: the table is as it was, the run has called no
\* write of the store, and the row is returned by get_unsummarized_videos
\* if it was before.
EarlyFailureWritesNothing ==
    EarlyFailure =>
        /\ rows' = rows
        /\ clock' = clock
        /\ res'.calls = {}
        /\ res'.url \in Unsummarized(rows) => res'.url \in Unsummarized(rows')

\* A step of process_channel_summaries that pulls the next channel's
\* unsummarized videos.
PullStep ==
    /\ batch.kind = "channels" /\ batch'.kind = "channels"
    /\ batch'.chans # batch.chans

\* An unprocessed row of the channel pulled whose run fails at the load of
\* its transcript.
FailsAtLoad(row) ==
    /\ row.channel_url = batch'.chan
    /\ ~row.summary_processed
    /\ row.transcript_path # NULL
    /\ Falsy(LoadTranscriptByPath(cache, row.transcript_path))

\* C35 as stated: a run that fails before the LLM stage writes nothing, and
\* every batch run over the channel of an unprocessed row whose transcript
\* cannot be loaded pulls that row again.
C35_EarlyFailureNoWrite_Stated ==
    [][/\ EarlyFailureWritesNothing
       /\ PullStep =>
             \A i \in 1..Len(rows) :
                 FailsAtLoad(rows[i]) => rows[i].url \in Range(batch'.queue)]_vars

\* C35: a run that fails before the LLM stage writes nothing, and every
\* batch run over the channel of an unprocessed row whose transcript cannot
\* be loaded pulls that row again unless its limit is used up by the rows
\* pulled.
C35_EarlyFailureNoWrite ==
    [][/\ EarlyFailureWritesNothing
       /\ PullStep =>
             \A i \in 1..Len(rows) :
                 FailsAtLoad(rows[i]) =>
                     \/ rows[i].url \in Range(batch'.queue)
                     \/ /\ batch.limit # NoLimit
                        /\ Len(batch'.queue) = batch.limit]_vars

\* C35 witness: a batch run has met a row whose transcript file is gone; the
\* run failed at the load and the row, unchanged, is still unsummarized.
C35_Witness ==
    /\ IsRun
    /\ batch.kind = "channels"
    /\ res.error = ErrLoad
    /\ res.calls = {}
    /\ Row(res.url) = res.pre
    /\ res.pre.summary_error = NULL
    /\ res.url \in Unsummarized(rows)


----------------------------------------------------------------------------
(* Repeated batch runs of one channel with a fixed limit:
   process_channel_summaries(channel_name, limit) called again and again on
   a table of videos that have transcripts.  Whether a video's pipeline
   fails is fixed by the video: the LLM stage fails on its transcript on
   every run, or every stage succeeds on every run. *)

MaxRunLimit == 2
RUN_URLS == <<"u1", "u2", "u3">>
FAILING_TEXT == "rejected by the model"
PASSING_TEXT == "hello world"
RUN_CACHE == [p \in {"p_fail", "p_ok"} |->
                 IF p = "p_fail" THEN FAILING_TEXT ELSE PASSING_TEXT]

\* What the managers do on a run over a transcript text.
StagesOn(text) ==
    IF text = PASSING_TEXT
    THEN <<[raised |-> FALSE, status |-> SUCCESS, payload |-> "Summary of T"],
           [raised |-> FALSE, status |-> SUCCESS, payload |-> "out.wav"],
           [raised |-> FALSE, status |-> SUCCESS, payload |-> "sent"]>>
    ELSE <<[raised |-> FALSE, status |-> FAILED, payload |-> NULL],
           NotCalled, NotCalled>>

\* The table after n videos of channel c1 were scraped one after the other,
\* each with a transcript file.
ScrapedRows(paths) ==
    [i \in 1..Len(paths) |->
        [NoRow EXCEPT !.url = RUN_URLS[i], !.title = "T",
                      !.channel_url = "c1", !.transcript_path = paths[i],
                      !.created_at = i, !.updated_at = i]]

\* While no call is in progress batch.limit holds the limit every call is
\* made with.
RunInit ==
    /\ \E n \in 2..Len(RUN_URLS) :
          \E paths \in [1..n -> DOMAIN RUN_CACHE] :
              /\ rows = ScrapedRows(paths)
              /\ clock = n + 1
    /\ \E limit \in 1..MaxRunLimit : batch = [Idle EXCEPT !.limit = limit]
    /\ cache = RUN_CACHE
    /\ res = OpResult("init", NULL, TRUE, NoRow, NoCounts, NoArgs)
    /\ textdir = {}
    /\ procs = NULL
    /\ mgr = NULL
    /\ providers = <<>>
    /\ meta = <<>>
    /\ live = <<>>
    /\ mres = NULL
    /\ configs = <<>>
    /\ built = <<>>
    /\ prov = NULL
    /\ pres = NULL
    /\ scrape = NULL
    /\ tg = NULL

\* "for video in videos": the pipeline runs on the next video.  The time of
\* a write is not advanced: get_unsummarized_videos reads created_at only
\* and these runs create no row.
RunVideo ==
    LET url == Head(batch.queue)
        text == LoadTranscriptByPath(cache, GetVideoByUrl(rows, url).transcript_path)
        o == StagesOn(text)
        r == ProcessVideoSummary(rows, cache, url, o[1], o[2], o[3], clock)
    IN /\ batch.kind = "channels"
       /\ batch.queue # <<>>
       /\ rows' = r.rows
       /\ textdir' = TextDirAfterRun(textdir, r.res)
       /\ res' = [r.res EXCEPT !.tally = Tally(r.res),
                               !.config = GetChannelSummaryConfig(batch.chan),
                               !.text_saved = ReachesTextStep(r.res)]
       /\ batch' = Bump(batch, res'.tally)
       /\ UNCHANGED <<cache, clock, mgrVars, provVars, scrape, tg, procs>>

\* The totals are returned; the next call is made with the same limit.
RunReturn ==
    /\ batch.kind = "channels"
    /\ batch.queue = <<>>
    /\ batch.chans = <<>>
    /\ res' = OpResult("process_channel_summaries", NULL, TRUE, NoRow,
                       [processed |-> batch.processed,
                        failed |-> batch.failed,
                        skipped |-> batch.skipped], NoArgs)
    /\ batch' = [Idle EXCEPT !.limit = batch.limit]
    /\ UNCHANGED <<rows, cache, clock, textdir, mgrVars, provVars,
                 scrape, tg, procs>>

RunNext ==
    \/ PcsStart("c1", batch.limit, FALSE)
    \/ PcsChannel
    \/ RunVideo
    \/ RunReturn

\* The calls go on for ever: a call that has started runs to its return and
\* another call follows.
RunSpec == RunInit /\ [][RunNext]_vars /\ WF_vars(RunNext)

\* A row whose pipeline succeeds whenever it is run.
WouldSucceed(row) ==
    LoadTranscriptByPath(cache, row.transcript_path) = PASSING_TEXT

\* C36: under repeated runs with a fixed limit of at least 1, every video
\* whose pipeline would succeed is eventually summarized, whatever older
\* videos of the channel fail on every run.
C36_NoStarvation ==
    <>(\A i \in 1..Len(rows) :
           WouldSucceed(rows[i]) => rows[i].summary_processed)


\* get_summary_stats(): three COUNT(*) queries and their difference.
GetSummaryStats(t) ==
    LET count(P(_)) == Cardinality({i \in 1..Len(t) : P(t[i])})
        with_transcript(row) == row.transcript_path # NULL
        processed(row) == row.summary_processed = TRUE
        errors(row) == row.summary_error # NULL
    IN [total_with_transcripts |-> count(with_transcript),
        summary_processed |-> count(processed),
        pending_summaries |-> count(with_transcript) - count(processed),
        summary_errors |-> count(errors)]

\* C37: in every reachable store state get_summary_stats reports
\* pending_summaries equal to the number of rows with a transcript_path and
\* summary_processed = FALSE; so pending_summaries is not negative and
\* summary_processed is at most total_with_transcripts.
C37_PendingIsUnprocessedWithTranscript ==
    LET stats == GetSummaryStats(rows) IN
    /\ stats.pending_summaries =
           Cardinality({i \in 1..Len(rows) :
                           /\ rows[i].transcript_path # NULL
                           /\ ~rows[i].summary_processed})
    /\ stats.pending_summaries >= 0
    /\ stats.summary_processed <= stats.total_with_transcripts


----------------------------------------------------------------------------
(* The batch drivers over a store and a cache that can fail: every method
   of YouTubeDatabase and load_transcript_by_path catch their own
   exceptions and return None or False, and the pipeline does not read what
   mark_summary_error and mark_summary_processed return. *)

NO_FAULT == "none"
READ_RAISES == "read"       \* get_video_by_url: the SELECT raises
CACHE_RAISES == "cache"     \* load_transcript_by_path: open or json.load raises
WRITE_RAISES == "write"     \* mark_summary_*: the UPDATE raises
FAULTS == {NO_FAULT, READ_RAISES, CACHE_RAISES, WRITE_RAISES}

\* process_video_summary(url) with the fault of this run: a failed read
\* returns None (no row), a failed load returns None (no transcript), a
\* failed write leaves the table as it was and the run goes on.
FaultyRun(t, c, url, llm, tts, notif, now, fault) ==
    IF fault = READ_RAISES THEN NotFoundReturn(t, url)
    ELSE IF fault = CACHE_RAISES
    THEN ProcessVideoSummary(t, [p \in DOMAIN c |-> MISSING], url,
                             llm, tts, notif, now)
    ELSE IF fault = WRITE_RAISES
    THEN [rows |-> t,
          res |-> ProcessVideoSummary(t, c, url, llm, tts, notif, now).res]
    ELSE ProcessVideoSummary(t, c, url, llm, tts, notif, now)

FaultInit ==
    /\ \E n \in 1..2 :
          \E paths \in [1..n -> {"p_ok"}] :
              /\ rows = ScrapedRows(paths)
              /\ clock = n + 1
    /\ batch = Idle
    /\ cache = RUN_CACHE
    /\ res = OpResult("init", NULL, TRUE, NoRow, NoCounts, NoArgs)
    /\ textdir = {}
    /\ procs = NULL
    /\ mgr = NULL
    /\ providers = <<>>
    /\ meta = <<>>
    /\ live = <<>>
    /\ mres = NULL
    /\ configs = <<>>
    /\ built = <<>>
    /\ prov = NULL
    /\ pres = NULL
    /\ scrape = NULL
    /\ tg = NULL

\* One run of the pipeline inside a batch driver; the result also records
\* the fault of the run.  The time of a write is not advanced.
FaultyPipeline(url, llm, tts, notif, fault, tallyOf) ==
    LET r == FaultyRun(rows, cache, url, llm, tts, notif, clock, fault) IN
    /\ rows' = r.rows
    /\ textdir' = TextDirAfterRun(textdir, r.res)
    /\ res' = [fault |-> fault] @@
              [r.res EXCEPT !.tally = tallyOf[Tally(r.res)],
                            !.text_saved = ReachesTextStep(r.res)]
    /\ batch' = Bump(batch, res'.tally)
    /\ UNCHANGED <<cache, clock, mgrVars, provVars, scrape, tg, procs>>

FaultPcsVideo(llm, tts, notif, fault) ==
    /\ batch.kind = "channels"
    /\ batch.queue # <<>>
    /\ FaultyPipeline(Head(batch.queue), llm, tts, notif, fault, ChannelTally)

FaultRetryVideo(llm, tts, notif, fault) ==
    /\ batch.kind = "retry"
    /\ batch.queue # <<>>
    /\ FaultyPipeline(Head(batch.queue).url, llm, tts, notif, fault, RetryTally)

FaultNext ==
    \/ \E name \in {NULL, "c1"}, limit \in LIMITS : PcsStart(name, limit, FALSE)
    \/ PcsChannel
    \/ \E o \in StageOutcomes, fault \in FAULTS :
          FaultPcsVideo(o[1], o[2], o[3], fault)
    \/ PcsReturn
    \/ \E limit \in LIMITS : RetryStart(limit)
    \/ \E o \in StageOutcomes, fault \in FAULTS :
          FaultRetryVideo(o[1], o[2], o[3], fault)
    \/ RetryReturn

FaultSpec == FaultInit /\ [][FaultNext]_vars

\* An exception was raised in some stage of the last run.
RaisedInRun ==
    \/ res.fault # NO_FAULT
    \/ res.llm.raised \/ res.tts.raised \/ res.notif.raised

\* C38: process_video_summary returns a result whatever raises; a run in
\* which the store, the cache or a manager raised returns success = FALSE
\* and leaves summary_error recorded for the url; the batch drivers go on
\* and their counts add up to the number of videos pulled.
C38_ExceptionsRecordedCountsAddUp ==
    /\ (IsRun /\ RaisedInRun) =>
          /\ ~res.success
          /\ Row(res.url).summary_error # NULL
    /\ batch.kind # "idle" =>
          RunsOfCall + Len(batch.queue) = batch.pulled


----------------------------------------------------------------------------
(* Two processes in save_video for one url at the same time.  The read
   (get_video_by_url, on a connection of its own) and the write (UPDATE or
   INSERT, then commit) are two steps; SQLite lets one connection write at
   a time, so each write is one step. *)

PROCS == {"A", "B"}
SAVED_URL == "u1"
PROC_TITLES == {"T", "T2"}

\* The part of save_video after the read: UPDATE when the read found a
\* row, else INSERT; an INSERT that breaks UNIQUE raises IntegrityError,
\* which "except Exception" turns into return False.
WriteAfterRead(t, existing, data, path, now) ==
    IF existing
    THEN [rows |-> UpdateVideo(t, data, path, now), ret |-> "True"]
    ELSE IF InsertBreaksUnique(t, data.url)
    THEN [rows |-> t, ret |-> "False"]
    ELSE [rows |-> InsertRow(t, data, path, now), ret |-> "True"]

\* Both processes are about to call save_video(url) and url has no row
\* (the table is empty or holds the row of another video).
ConcInit ==
    /\ rows \in {<<>>,
                 <<[NoRow EXCEPT !.url = "u2", !.title = "T",
                                 !.channel_url = "c1",
                                 !.created_at = 1, !.updated_at = 1]>>}
    /\ clock = 1
    /\ procs \in [PROCS -> {[pc |-> "read", existing |-> FALSE, ret |-> NULL,
                             data |-> [url |-> SAVED_URL, title |-> title,
                                       channel_url |-> "c1"],
                             path |-> path] :
                                title \in PROC_TITLES,
                                path \in PATHS \cup {NULL}}]
    /\ cache = [p \in PATHS |-> MISSING]
    /\ res = OpResult("init", NULL, TRUE, NoRow, NoCounts, NoArgs)
    /\ batch = Idle
    /\ textdir = {}
    /\ mgr = NULL
    /\ providers = <<>>
    /\ meta = <<>>
    /\ live = <<>>
    /\ mres = NULL
    /\ configs = <<>>
    /\ built = <<>>
    /\ prov = NULL
    /\ pres = NULL
    /\ scrape = NULL
    /\ tg = NULL

\* existing = self.get_video_by_url(video_data['url'])
ProcRead(p) ==
    /\ procs[p].pc = "read"
    /\ procs' = [procs EXCEPT
                    ![p].existing = GetVideoByUrl(rows, procs[p].data.url) # NoRow,
                    ![p].pc = "write"]
    /\ UNCHANGED <<storeVars, mgrVars, provVars, scrape, tg>>

\* conn.execute(UPDATE or INSERT); conn.commit(); return True -- or the
\* exception handler's return False.
ProcWrite(p) ==
    LET w == WriteAfterRead(rows, procs[p].existing, procs[p].data,
                            procs[p].path, clock + 1)
    IN /\ procs[p].pc = "write"
       /\ rows' = w.rows
       /\ clock' = clock + 1
       /\ procs' = [procs EXCEPT ![p].ret = w.ret, ![p].pc = "done"]
       /\ UNCHANGED <<cache, res, batch, textdir, mgrVars, provVars,
                      scrape, tg>>

ConcNext ==
    \/ \E p \in PROCS : ProcRead(p)
    \/ \E p \in PROCS : ProcWrite(p)

ConcSpec == ConcInit /\ [][ConcNext]_vars

BothReturned == \A p \in PROCS : procs[p].pc = "done"

\* C39: when two processes run save_video at the same time for a url that
\* has no row, the table never holds two rows for the url; once both calls
\* have returned it holds exactly one, at most one call has failed, and a
\* failed call has returned False.
C39_ConcurrentSaveOneRow ==
    /\ Cardinality(RowIdx(rows, SAVED_URL)) <= 1
    /\ \A p \in PROCS :
          procs[p].pc = "done" => procs[p].ret \in {"True", "False"}
    /\ BothReturned =>
          /\ Cardinality(RowIdx(rows, SAVED_URL)) = 1
          /\ \E p \in PROCS : procs[p].ret = "True"

\* C39 witness: both processes read before either wrote; the second INSERT
\* broke UNIQUE and that call returned False.
C39_Witness ==
    /\ BothReturned
    /\ \A p \in PROCS : ~procs[p].existing
    /\ \E p \in PROCS : procs[p].ret = "False"
    /\ Cardinality(RowIdx(rows, SAVED_URL)) = 1
====
